---- MODULE Spec2Model ----
(***************************************************************************)
(* Verification model of the rusted-tools MCP gateway: the endpoint        *)
(* registry, the endpoint manager's lifecycle operations running as        *)
(* concurrent tasks, the endpoint variants' cached client handle, the      *)
(* path router and the tool filter.                                        *)
(***************************************************************************)
EXTENDS Integers, Sequences, FiniteSets, TLC

(* ------------------------------ bounds -------------------------------- *)

\* number of concurrently running request tasks
NumTasks == 2
\* number of calls the tasks may issue in total
MaxCalls == 3
\* longest include / exclude list of a tool filter
MaxLen == 2

(* ----------------------------- constants ------------------------------ *)

\* absent value of a string-valued field
None == "None"
\* Option<T>: None and Some(v)
NoneV == [some |-> FALSE]
Some(v) == [some |-> TRUE, v |-> v]

Tasks == 1..NumTasks

\* endpoints of the configuration the manager is initialised from
Names == {"a", "b"}
\* a name no endpoint is registered under
Ghost == "ghost"
\* routing keys
Paths == {"a", "pb"}
ToolNames == {"t1", "t2", "t3"}
\* tool names of the invocation requests
RequestTools == {"t1", "t2"}

\* enum EndpointStatus
EndpointStatus == {"Starting", "Running", "Stopping", "Stopped", "Failed"}
\* enum EndpointType
EndpointType == {"Local", "Remote"}

\* the configuration: a is a Local endpoint (auto_start off), b a Remote one
ConfigType(n) == IF n = "a" THEN "Local" ELSE "Remote"

VARIABLES
    registry,          \* EndpointRegistry.endpoints: name -> EndpointInfo
    mcp_client,        \* per endpoint variant: Option of the cached client (a session id)
    endpoint_lock,     \* per endpoint: the RwLock around the variant
    path_to_endpoint,  \* PathRouter.path_to_endpoint: path -> EndpointRoute
    sessions,          \* every client session created so far
    tasks,             \* per task: position in its call, call-local values
    calls,             \* calls issued so far
    last,              \* the last registry / router API call and its result
    filter,            \* tool filter under evaluation (Option<ToolFilter>)
    tool_name,         \* tool name under evaluation
    verdict,           \* Option of the result of the filter evaluation
    state,             \* session actor: McpRuntimeHandle.state (RuntimeState)
    rx,                \* session actor: messages in the request channel
    worker,            \* session actor: the worker task's position and message
    callers,           \* session actor: per caller, position in its handle call
    resp,              \* session actor: the reply channel of each message
    service_log,       \* backend operations the worker has issued, in order
    enqueued,          \* ids of the messages sent into the channel, in order
    tx_dropped,        \* every McpRuntimeHandle clone has been dropped
    ops,               \* handle calls made so far
    tool_def,          \* ToolDefinition handed to the bridge's conversion
    converted,         \* Option of the rmcp Tool the conversion returned
    service,           \* tool listing: the backend's answer to each page request
    cursor,            \* tool listing: the cursor of the next page request
    tool_list,         \* tool listing: the tools collected so far
    page_requests,     \* tool listing: the cursors requested so far, in order
    list_result,       \* tool listing: Option of the Result the listing returned
    mounted            \* per path: the StdioBridge service nested at /mcp/{path}

\* the session actor of one backend connection
actorVars == <<state, rx, worker, callers, resp, service_log, enqueued,
               tx_dropped, ops>>

\* the bridge's tool conversion
bridgeVars == <<tool_def, converted>>

\* the walk over a backend's paginated tool listing
listVars == <<service, cursor, tool_list, page_requests, list_result>>

\* no tool listing is under way
NoListing ==
    /\ service = <<>>
    /\ cursor = NoneV
    /\ tool_list = <<>>
    /\ page_requests = <<>>
    /\ list_result = NoneV

\* everything outside the session actor
hostVars == <<registry, mcp_client, endpoint_lock, path_to_endpoint, sessions,
              tasks, calls, last, filter, tool_name, verdict, bridgeVars, listVars, mounted>>

vars == <<hostVars, actorVars>>

\* variables the running gateway never changes
fixedVars == <<path_to_endpoint, last, filter, tool_name, verdict, actorVars,
               bridgeVars, listVars, mounted>>

(* ------------------------------ bridge -------------------------------- *)

\* serde_json::Value: scalars
JsonScalars ==
    {[t |-> "null"], [t |-> "bool", b |-> TRUE], [t |-> "bool", b |-> FALSE],
     [t |-> "string", s |-> "just a string"], [t |-> "number", n |-> 1]}

\* serde_json::Value: arrays
JsonArrays ==
    {[t |-> "array", items |-> <<>>],
     [t |-> "array", items |-> <<[t |-> "string", s |-> "string"]>>]}

\* keys of a tool's input schema
SchemaKeys == {"type", "properties"}

\* serde_json::Map with no entry
EmptyMap == [k \in {} |-> [t |-> "null"]]

\* serde_json::Value: objects over the schema keys
JsonObjects ==
    {[t |-> "object", map |-> m] :
        m \in UNION {[K -> {[t |-> "string", s |-> "object"], [t |-> "object", map |-> EmptyMap]}] :
                        K \in SUBSET SchemaKeys}}

\* Value::as_object
as_object(value) ==
    IF value.t = "object" THEN [some |-> TRUE, v |-> value.map] ELSE [some |-> FALSE]

\* a conversion that turns an array schema into a map keyed by position
build_rmcp_tool_keeps_arrays(td) ==
    [name |-> td.name,
     title |-> [some |-> FALSE],
     description |-> td.description,
     input_schema |-> IF as_object(td.input_schema).some
                      THEN as_object(td.input_schema).v
                      ELSE IF td.input_schema.t = "array"
                      THEN td.input_schema.items
                      ELSE EmptyMap,
     output_schema |-> [some |-> FALSE]]

\* build_rmcp_tool
build_rmcp_tool(td) ==
    [name |-> td.name,
     title |-> [some |-> FALSE],
     description |-> td.description,
     input_schema |-> IF as_object(td.input_schema).some
                      THEN as_object(td.input_schema).v
                      ELSE EmptyMap,
     output_schema |-> [some |-> FALSE]]

(* --------------------------- tool filter ------------------------------ *)

\* Vec<String>::iter().any(|t| t == tool_name)
any(list, name) == \E i \in 1..Len(list) : list[i] = name

\* allows treating an empty include list as no include list
allows_empty_is_absent(f, name) ==
    IF f.include.some /\ Len(f.include.v) > 0 /\ ~any(f.include.v, name) THEN FALSE
    ELSE IF f.exclude.some /\ any(f.exclude.v, name) THEN FALSE
    ELSE TRUE

\* allows letting a listed include name pass before the exclude list is read
allows_include_wins(f, name) ==
    IF f.include.some /\ any(f.include.v, name) THEN TRUE
    ELSE IF f.include.some THEN FALSE
    ELSE IF f.exclude.some /\ any(f.exclude.v, name) THEN FALSE
    ELSE TRUE

\* ToolFilter::allows
allows(f, name) ==
    IF f.include.some /\ ~any(f.include.v, name) THEN FALSE
    ELSE IF f.exclude.some /\ any(f.exclude.v, name) THEN FALSE
    ELSE TRUE

\* is_tool_allowed
is_tool_allowed(name, f) ==
    IF ~f.some THEN TRUE ELSE allows(f.v, name)

\* apply_tool_filter reading the include list only
apply_tool_filter_include_only(tools, f) ==
    IF ~f.some THEN tools
    ELSE SelectSeq(tools, LAMBDA t : ~f.v.include.some \/ any(f.v.include.v, t))

\* apply_tool_filter
apply_tool_filter(tools, f) ==
    IF ~f.some THEN tools
    ELSE SelectSeq(tools, LAMBDA t : allows(f.v, t))

(* ----------------------------- registry ------------------------------- *)

\* struct EndpointInfo as built by EndpointRegistry::register
NewInfo(name, path, endpoint_type) ==
    [name |-> name, path |-> path, endpoint_type |-> endpoint_type,
     status |-> "Stopped"]

\* register inserting without the contains_key check
register_overwrite(reg, name, path, endpoint_type) ==
    [n \in DOMAIN reg \cup {name} |->
        IF n = name THEN NewInfo(name, path, endpoint_type) ELSE reg[n]]

\* EndpointRegistry::register: the map after the call
register(reg, name, path, endpoint_type) ==
    IF name \in DOMAIN reg THEN reg
    ELSE reg @@ (name :> NewInfo(name, path, endpoint_type))

\* EndpointRegistry::register: the result of the call
register_result(reg, name) ==
    IF name \in DOMAIN reg THEN "AlreadyExists" ELSE "Ok"

\* a set_status that writes the status into every entry
set_status_all(reg, name, status) ==
    IF name \in DOMAIN reg THEN [n \in DOMAIN reg |-> [reg[n] EXCEPT !.status = status]]
    ELSE reg

\* EndpointRegistry::set_status: the map after the call
set_status(reg, name, status) ==
    IF name \in DOMAIN reg THEN [reg EXCEPT ![name].status = status] ELSE reg

(* ------------------------- endpoint manager --------------------------- *)

\* a task that is not inside a call
IdleTask ==
    [pc |-> "idle", id |-> 0, op |-> None, cur |-> None, name |-> None, path |-> None,
     tool |-> None, todo |-> {}, seen |-> None, vres |-> None, wrote |-> <<>>,
     contact |-> {}, made |-> NoneV, client |-> NoneV, route_filter |-> NoneV,
     res |-> None, out |-> <<>>, before |-> <<>>, cause |-> None,
     configs |-> <<>>, idx |-> 0]

\* the id of the session a task creates during its current call
NewSession(t) == tasks[t].id

Unlocked == [writer |-> 0, readers |-> {}]

\* a write lock shared by all endpoints
CanWrite_OneLock(n) ==
    \A m \in DOMAIN endpoint_lock :
        endpoint_lock[m].writer = 0 /\ endpoint_lock[m].readers = {}
\* RwLock::write: granted when no reader and no writer holds the lock
CanWrite(n) == endpoint_lock[n].writer = 0 /\ endpoint_lock[n].readers = {}
\* RwLock::read: granted when no writer holds the lock
CanRead(n) == endpoint_lock[n].writer = 0

\* a restart that goes on to start whatever stop returned
Return_RestartGoesOn(tk, r) ==
    IF tk.op = "restart" /\ tk.cur = "stop"
    THEN [tk EXCEPT !.pc = "sleep", !.cur = None]
    ELSE IF tk.op = "shutdown"
    THEN [tk EXCEPT !.pc = "next", !.cur = None]
    ELSE [tk EXCEPT !.pc = "done", !.cur = None, !.res = r]

\* an initialisation that returns the error of a failed auto-start
Return_InitPropagates(tk, r) ==
    IF tk.op = "restart" /\ tk.cur = "stop" /\ r = "Ok"
    THEN [tk EXCEPT !.pc = "sleep", !.cur = None]
    ELSE IF tk.op = "shutdown"
    THEN [tk EXCEPT !.pc = "next", !.cur = None]
    ELSE IF tk.op = "init" /\ r = "Ok"
    THEN [tk EXCEPT !.pc = "init", !.cur = None]
    ELSE [tk EXCEPT !.pc = "done", !.cur = None, !.res = r]

\* what follows the return of start_endpoint / stop_endpoint with result r:
\* the caller's continuation (restart_endpoint, shutdown, init_local_endpoint)
\* or the call's end
Return(tk, r) ==
    IF tk.op = "restart" /\ tk.cur = "stop" /\ r = "Ok"
    THEN [tk EXCEPT !.pc = "sleep", !.cur = None]
    ELSE IF tk.op = "shutdown"
    THEN [tk EXCEPT !.pc = "next", !.cur = None]
    ELSE IF tk.op = "init"
    THEN [tk EXCEPT !.pc = "init", !.cur = None]
    ELSE [tk EXCEPT !.pc = "done", !.cur = None, !.res = r]

\* a handler calls start_endpoint / stop_endpoint / restart_endpoint
BeginLifecycle(t, kind, n) ==
    /\ tasks[t].pc = "idle"
    /\ calls < MaxCalls
    /\ calls' = calls + 1
    /\ tasks' = [tasks EXCEPT ![t] =
                    [IdleTask EXCEPT !.id = calls + 1, !.pc = "get", !.op = kind, !.name = n,
                                     !.cur = IF kind = "start" THEN "start" ELSE "stop"]]
    /\ UNCHANGED <<registry, mcp_client, endpoint_lock, sessions, fixedVars>>

\* start_endpoint without the AlreadyRunning check
StartGet_NoCheck(t) ==
    LET tk == tasks[t] IN
    /\ tk.pc = "get" /\ tk.cur = "start"
    /\ tasks' = [tasks EXCEPT ![t] =
          IF tk.name \notin DOMAIN registry THEN Return(tk, "NotFound")
          ELSE [tk EXCEPT !.seen = registry[tk.name].status, !.pc = "set"]]
    /\ UNCHANGED <<registry, mcp_client, endpoint_lock, sessions, calls, fixedVars>>

\* start_endpoint: registry.get and the AlreadyRunning check
StartGet(t) ==
    LET tk == tasks[t] IN
    /\ tk.pc = "get" /\ tk.cur = "start"
    /\ tasks' = [tasks EXCEPT ![t] =
          IF tk.name \notin DOMAIN registry THEN Return(tk, "NotFound")
          ELSE LET s == registry[tk.name].status IN
               IF s = "Running"
               THEN Return([tk EXCEPT !.seen = s], "AlreadyRunning")
               ELSE [tk EXCEPT !.seen = s, !.pc = "set"]]
    /\ UNCHANGED <<registry, mcp_client, endpoint_lock, sessions, calls, fixedVars>>

\* start_endpoint: registry.set_status(name, Starting)
StartSetStarting(t) ==
    LET tk == tasks[t] IN
    /\ tk.pc = "set" /\ tk.cur = "start"
    /\ registry' = set_status(registry, tk.name, "Starting")
    /\ tasks' = [tasks EXCEPT ![t].pc = "lock",
                              ![t].wrote = Append(@, "Starting")]
    /\ UNCHANGED <<mcp_client, endpoint_lock, sessions, calls, fixedVars>>

\* start_endpoint / stop_endpoint: endpoint_lock.write().await
AcquireWrite(t) ==
    LET tk == tasks[t] IN
    /\ tk.pc = "lock"
    /\ CanWrite(tk.name)
    /\ endpoint_lock' = [endpoint_lock EXCEPT ![tk.name].writer = t]
    /\ tasks' = [tasks EXCEPT ![t].pc = "variant"]
    /\ UNCHANGED <<registry, mcp_client, sessions, calls, fixedVars>>

\* what the backend does during the handshake: it completes it, stays silent
\* for HANDSHAKE_TIMEOUT, or answers with something that is not a handshake
HandshakeEvents == {"connected", "timed_out", "format_error"}

\* McpClient::init_with_transport / init_with_http: the ProxyError variant and
\* message by handshake event, Ok when the service is stored
init_with_transport(event) ==
    IF event = "timed_out"
    THEN [kind |-> "McpProtocol", message |-> "MCP handshake timed out"]
    ELSE IF event = "format_error"
    THEN [kind |-> "McpProtocol", message |-> "Failed to initialize MCP client"]
    ELSE [kind |-> "Ok", message |-> None]

\* what can happen in the transport bootstrap and handshake of a variant's start
BootEvents(endpoint_type) ==
    IF endpoint_type = "Local"
    THEN {"spawn_failed"} \cup HandshakeEvents
    ELSE HandshakeEvents

\* LocalEndpoint::start / RemoteEndpoint::start: the result for a bootstrap event
boot_result(event) ==
    IF event = "spawn_failed" THEN "StartFailed" ELSE init_with_transport(event).kind

\* backend contacts of a variant's start with the given outcome
BootContacts(endpoint_type, outcome) ==
    IF endpoint_type = "Local"
    THEN IF outcome = "StartFailed" THEN {"spawn"} ELSE {"spawn", "handshake"}
    ELSE IF outcome = "Ok" THEN {"handshake", "list"} ELSE {"handshake"}

\* a variant start without the check that a client is already stored
StartVariant_Overwrite(t) ==
    LET tk == tasks[t] IN
    /\ tk.pc = "variant" /\ tk.cur = "start"
    /\ endpoint_lock[tk.name].writer = t
    /\ \E event \in BootEvents(registry[tk.name].endpoint_type) :
            LET outcome == boot_result(event) IN
            /\ tasks' = [tasks EXCEPT
                  ![t].pc = "status",
                  ![t].vres = outcome,
                  ![t].cause = event,
                  ![t].contact = @ \cup BootContacts(registry[tk.name].endpoint_type, outcome),
                  ![t].made = IF outcome = "Ok" THEN Some(NewSession(t)) ELSE @]
            /\ IF outcome = "Ok"
               THEN /\ mcp_client' = [mcp_client EXCEPT ![tk.name] = Some(NewSession(t))]
                    /\ sessions' = sessions \cup {NewSession(t)}
               ELSE UNCHANGED <<mcp_client, sessions>>
    /\ UNCHANGED <<registry, endpoint_lock, calls, fixedVars>>

\* a variant start that stores the client before the handshake has succeeded
StartVariant_StoreFirst(t) ==
    LET tk == tasks[t] IN
    /\ tk.pc = "variant" /\ tk.cur = "start"
    /\ endpoint_lock[tk.name].writer = t
    /\ IF mcp_client[tk.name].some
       THEN /\ tasks' = [tasks EXCEPT ![t].pc = "status",
                                      ![t].vres = "AlreadyRunning"]
            /\ UNCHANGED <<mcp_client, sessions>>
       ELSE \E event \in BootEvents(registry[tk.name].endpoint_type) :
            LET outcome == boot_result(event) IN
            /\ tasks' = [tasks EXCEPT
                  ![t].pc = "status",
                  ![t].vres = outcome,
                  ![t].cause = event,
                  ![t].contact = @ \cup BootContacts(registry[tk.name].endpoint_type, outcome),
                  ![t].made = IF outcome = "Ok" THEN Some(NewSession(t)) ELSE @]
            /\ mcp_client' = [mcp_client EXCEPT ![tk.name] = Some(NewSession(t))]
            /\ sessions' = IF outcome = "Ok" THEN sessions \cup {NewSession(t)} ELSE sessions
    /\ UNCHANGED <<registry, endpoint_lock, calls, fixedVars>>

\* LocalEndpoint::start / RemoteEndpoint::start
StartVariant(t) ==
    LET tk == tasks[t] IN
    /\ tk.pc = "variant" /\ tk.cur = "start"
    /\ endpoint_lock[tk.name].writer = t
    /\ IF mcp_client[tk.name].some
       THEN /\ tasks' = [tasks EXCEPT ![t].pc = "status",
                                      ![t].vres = "AlreadyRunning"]
            /\ UNCHANGED <<mcp_client, sessions>>
       ELSE \E event \in BootEvents(registry[tk.name].endpoint_type) :
            LET outcome == boot_result(event) IN
            /\ tasks' = [tasks EXCEPT
                  ![t].pc = "status",
                  ![t].vres = outcome,
                  ![t].cause = event,
                  ![t].contact = @ \cup BootContacts(registry[tk.name].endpoint_type, outcome),
                  ![t].made = IF outcome = "Ok" THEN Some(NewSession(t)) ELSE @]
            /\ IF outcome = "Ok"
               THEN /\ mcp_client' = [mcp_client EXCEPT ![tk.name] = Some(NewSession(t))]
                    /\ sessions' = sessions \cup {NewSession(t)}
               ELSE UNCHANGED <<mcp_client, sessions>>
    /\ UNCHANGED <<registry, endpoint_lock, calls, fixedVars>>

\* start_endpoint resetting the status to Stopped when the start fails
StartStatusFor_Reset(vres) == IF vres = "Ok" THEN "Running" ELSE "Stopped"

\* start_endpoint: the status written for the variant's result
StartStatusFor(vres) == IF vres = "Ok" THEN "Running" ELSE "Failed"

\* start_endpoint: set_status(Running | Failed), drop of the write guard, return
StartStatus(t) ==
    LET tk == tasks[t] IN
    /\ tk.pc = "status" /\ tk.cur = "start"
    /\ registry' = set_status(registry, tk.name, StartStatusFor(tk.vres))
    /\ endpoint_lock' = [endpoint_lock EXCEPT ![tk.name].writer = 0]
    /\ tasks' = [tasks EXCEPT ![t] =
          Return([tk EXCEPT !.wrote = Append(@, StartStatusFor(tk.vres))], tk.vres)]
    /\ UNCHANGED <<mcp_client, sessions, calls, fixedVars>>

\* stop_endpoint without the NotRunning check
StopGet_NoCheck(t) ==
    LET tk == tasks[t] IN
    /\ tk.pc = "get" /\ tk.cur = "stop"
    /\ tasks' = [tasks EXCEPT ![t] =
          IF tk.name \notin DOMAIN registry THEN Return(tk, "NotFound")
          ELSE [tk EXCEPT !.seen = registry[tk.name].status, !.pc = "set"]]
    /\ UNCHANGED <<registry, mcp_client, endpoint_lock, sessions, calls, fixedVars>>

\* stop_endpoint: registry.get and the NotRunning check
StopGet(t) ==
    LET tk == tasks[t] IN
    /\ tk.pc = "get" /\ tk.cur = "stop"
    /\ tasks' = [tasks EXCEPT ![t] =
          IF tk.name \notin DOMAIN registry THEN Return(tk, "NotFound")
          ELSE LET s == registry[tk.name].status IN
               IF s = "Stopped"
               THEN Return([tk EXCEPT !.seen = s], "NotRunning")
               ELSE [tk EXCEPT !.seen = s, !.pc = "set"]]
    /\ UNCHANGED <<registry, mcp_client, endpoint_lock, sessions, calls, fixedVars>>

\* stop_endpoint: registry.set_status(name, Stopping)
StopSetStopping(t) ==
    LET tk == tasks[t] IN
    /\ tk.pc = "set" /\ tk.cur = "stop"
    /\ registry' = set_status(registry, tk.name, "Stopping")
    /\ tasks' = [tasks EXCEPT ![t].pc = "lock",
                              ![t].wrote = Append(@, "Stopping")]
    /\ UNCHANGED <<mcp_client, endpoint_lock, sessions, calls, fixedVars>>

\* LocalEndpoint::stop / RemoteEndpoint::stop
StopVariant(t) ==
    LET tk == tasks[t] IN
    /\ tk.pc = "variant" /\ tk.cur = "stop"
    /\ endpoint_lock[tk.name].writer = t
    /\ IF ~mcp_client[tk.name].some
       THEN /\ tasks' = [tasks EXCEPT ![t].pc = "status", ![t].vres = "NotRunning"]
            /\ UNCHANGED mcp_client
       ELSE /\ tasks' = [tasks EXCEPT ![t].pc = "status", ![t].vres = "Ok"]
            /\ mcp_client' = [mcp_client EXCEPT ![tk.name] = NoneV]
    /\ UNCHANGED <<registry, endpoint_lock, sessions, calls, fixedVars>>

\* stop_endpoint: the status written for the variant's result
StopStatusFor(vres) == IF vres = "Ok" THEN "Stopped" ELSE "Failed"

\* stop_endpoint: set_status(Stopped | Failed), drop of the write guard, return
StopStatus(t) ==
    LET tk == tasks[t] IN
    /\ tk.pc = "status" /\ tk.cur = "stop"
    /\ registry' = set_status(registry, tk.name, StopStatusFor(tk.vres))
    /\ endpoint_lock' = [endpoint_lock EXCEPT ![tk.name].writer = 0]
    /\ tasks' = [tasks EXCEPT ![t] =
          Return([tk EXCEPT !.wrote = Append(@, StopStatusFor(tk.vres))], tk.vres)]
    /\ UNCHANGED <<mcp_client, sessions, calls, fixedVars>>

\* restart_endpoint: the delay has elapsed, start_endpoint is called
RestartSleep(t) ==
    /\ tasks[t].pc = "sleep"
    /\ tasks' = [tasks EXCEPT ![t].pc = "get", ![t].cur = "start"]
    /\ UNCHANGED <<registry, mcp_client, endpoint_lock, sessions, calls, fixedVars>>

\* a signal handler calls shutdown
BeginShutdown(t) ==
    /\ tasks[t].pc = "idle"
    /\ calls < MaxCalls
    /\ calls' = calls + 1
    /\ tasks' = [tasks EXCEPT ![t] =
                    [IdleTask EXCEPT !.id = calls + 1, !.pc = "next", !.op = "shutdown",
                                     !.todo = DOMAIN mcp_client,
                                     !.before = [n \in DOMAIN registry |->
                                                    registry[n].status]]]
    /\ UNCHANGED <<registry, mcp_client, endpoint_lock, sessions, fixedVars>>

\* a shutdown that stops the endpoints of either kind
ShutdownNext_AllKinds(t) ==
    LET tk == tasks[t] IN
    /\ tk.pc = "next"
    /\ IF tk.todo = {}
       THEN tasks' = [tasks EXCEPT ![t].pc = "done", ![t].res = "Ok"]
       ELSE \E n \in tk.todo :
            tasks' = [tasks EXCEPT ![t] =
               IF n \in DOMAIN registry
               THEN [tk EXCEPT !.todo = @ \ {n}, !.name = n,
                               !.pc = "get", !.cur = "stop"]
               ELSE [tk EXCEPT !.todo = @ \ {n}]]
    /\ UNCHANGED <<registry, mcp_client, endpoint_lock, sessions, calls, fixedVars>>

\* shutdown: one iteration of the loop over the endpoints map, or its end
ShutdownNext(t) ==
    LET tk == tasks[t] IN
    /\ tk.pc = "next"
    /\ IF tk.todo = {}
       THEN tasks' = [tasks EXCEPT ![t].pc = "done", ![t].res = "Ok"]
       ELSE \E n \in tk.todo :
            tasks' = [tasks EXCEPT ![t] =
               IF n \in DOMAIN registry /\ registry[n].endpoint_type = "Local"
               THEN [tk EXCEPT !.todo = @ \ {n}, !.name = n,
                               !.pc = "get", !.cur = "stop"]
               ELSE [tk EXCEPT !.todo = @ \ {n}]]
    /\ UNCHANGED <<registry, mcp_client, endpoint_lock, sessions, calls, fixedVars>>

(* --------------------------- path router ------------------------------ *)

\* EndpointConfig::get_path: the configured path, the name by default
get_path(config) == IF config.path.some THEN config.path.v ELSE config.name

\* PathRouter::init_from_config, one configuration entry: the map after the insert
insert_route(routes, config) ==
    [p \in DOMAIN routes \cup {get_path(config)} |->
        IF p = get_path(config)
        THEN [endpoint_name |-> config.name, tool_filter |-> config.tools]
        ELSE routes[p]]

(* ------------------- initialisation from configuration ---------------- *)

\* an initialisation that starts every endpoint it registers
InitNext_StartsAll(t) ==
    LET tk == tasks[t] IN
    /\ tk.pc = "init"
    /\ IF tk.idx = Len(tk.configs)
       THEN /\ tasks' = [tasks EXCEPT ![t].pc = "done", ![t].res = "Ok"]
            /\ UNCHANGED registry
       ELSE LET config == tk.configs[tk.idx + 1] IN
            IF register_result(registry, config.name) # "Ok"
            THEN /\ tasks' = [tasks EXCEPT ![t].pc = "done",
                                           ![t].res = register_result(registry, config.name)]
                 /\ UNCHANGED registry
            ELSE /\ registry' = register(registry, config.name, config.name,
                                         config.endpoint_type)
                 /\ tasks' = [tasks EXCEPT ![t] =
                       IF TRUE
                       THEN [tk EXCEPT !.idx = @ + 1, !.name = config.name,
                                       !.pc = "get", !.cur = "start"]
                       ELSE [tk EXCEPT !.idx = @ + 1, !.name = config.name]]
    /\ UNCHANGED <<mcp_client, endpoint_lock, sessions, calls, fixedVars>>

\* EndpointManager::init_from_config: one iteration of the loop over the
\* configuration (init_local_endpoint / init_remote_endpoint), or its end
InitNext(t) ==
    LET tk == tasks[t] IN
    /\ tk.pc = "init"
    /\ IF tk.idx = Len(tk.configs)
       THEN /\ tasks' = [tasks EXCEPT ![t].pc = "done", ![t].res = "Ok"]
            /\ UNCHANGED registry
       ELSE LET config == tk.configs[tk.idx + 1] IN
            IF register_result(registry, config.name) # "Ok"
            THEN /\ tasks' = [tasks EXCEPT ![t].pc = "done",
                                           ![t].res = register_result(registry, config.name)]
                 /\ UNCHANGED registry
            ELSE /\ registry' = register(registry, config.name, config.name,
                                         config.endpoint_type)
                 /\ tasks' = [tasks EXCEPT ![t] =
                       IF config.endpoint_type = "Local" /\ config.auto_start
                       THEN [tk EXCEPT !.idx = @ + 1, !.name = config.name,
                                       !.pc = "get", !.cur = "start"]
                       ELSE [tk EXCEPT !.idx = @ + 1, !.name = config.name]]
    /\ UNCHANGED <<mcp_client, endpoint_lock, sessions, calls, fixedVars>>

(* --------------------- discovery and invocation ----------------------- *)

\* the tool list of every backend
BackendTools == <<"t1", "t2", "t3">>

\* a handler (mcp_list_tools / mcp_call_tool) receives a request
BeginRequest(t, kind, path, tool) ==
    /\ tasks[t].pc = "idle"
    /\ calls < MaxCalls
    /\ calls' = calls + 1
    /\ tasks' = [tasks EXCEPT ![t] =
                    [IdleTask EXCEPT !.id = calls + 1, !.pc = "route", !.op = kind,
                                     !.path = path, !.tool = tool]]
    /\ UNCHANGED <<registry, mcp_client, endpoint_lock, sessions, fixedVars>>

\* PathRouter::get_route
GetRoute(t) ==
    LET tk == tasks[t] IN
    /\ tk.pc = "route"
    /\ tasks' = [tasks EXCEPT ![t] =
          IF tk.path \notin DOMAIN path_to_endpoint
          THEN [tk EXCEPT !.pc = "done", !.res = "NotFound"]
          ELSE [tk EXCEPT !.pc = "gc_get",
                          !.name = path_to_endpoint[tk.path].endpoint_name,
                          !.route_filter = path_to_endpoint[tk.path].tool_filter]]
    /\ UNCHANGED <<registry, mcp_client, endpoint_lock, sessions, calls, fixedVars>>

\* get_client without the Running check
GetClientGet_NoCheck(t) ==
    LET tk == tasks[t] IN
    /\ tk.pc = "gc_get"
    /\ tasks' = [tasks EXCEPT ![t] =
          IF tk.name \notin DOMAIN registry
          THEN [tk EXCEPT !.pc = "done", !.res = "NotFound"]
          ELSE [tk EXCEPT !.seen = registry[tk.name].status, !.pc = "gc_lock"]]
    /\ UNCHANGED <<registry, mcp_client, endpoint_lock, sessions, calls, fixedVars>>

\* EndpointManager::get_client: registry.get and the Running check
GetClientGet(t) ==
    LET tk == tasks[t] IN
    /\ tk.pc = "gc_get"
    /\ tasks' = [tasks EXCEPT ![t] =
          IF tk.name \notin DOMAIN registry
          THEN [tk EXCEPT !.pc = "done", !.res = "NotFound"]
          ELSE LET s == registry[tk.name].status IN
               IF s # "Running"
               THEN [tk EXCEPT !.seen = s, !.pc = "done", !.res = "NotRunning"]
               ELSE [tk EXCEPT !.seen = s, !.pc = "gc_lock"]]
    /\ UNCHANGED <<registry, mcp_client, endpoint_lock, sessions, calls, fixedVars>>

\* EndpointManager::get_client: endpoint.read().await
AcquireRead(t) ==
    LET tk == tasks[t] IN
    /\ tk.pc = "gc_lock"
    /\ CanRead(tk.name)
    /\ endpoint_lock' = [endpoint_lock EXCEPT ![tk.name].readers = @ \cup {t}]
    /\ tasks' = [tasks EXCEPT ![t].pc = "gc_variant"]
    /\ UNCHANGED <<registry, mcp_client, sessions, calls, fixedVars>>

\* a handler that dispatches without the filter check
AfterClient_NoFilter(tk, client) ==
    [tk EXCEPT !.client = client, !.pc = "backend"]

\* the handler's step after a successful get_client: mcp_call_tool checks
\* the filter before the call, mcp_list_tools goes on to the listing
AfterClient(tk, client) ==
    IF tk.op = "call_tool" /\ ~is_tool_allowed(tk.tool, tk.route_filter)
    THEN [tk EXCEPT !.client = client, !.pc = "done", !.res = "ToolNotAllowed"]
    ELSE [tk EXCEPT !.client = client, !.pc = "backend"]

\* a get_or_create_client that stores the client it creates on demand
GetOrCreateClient_Caches(t) ==
    LET tk == tasks[t] IN
    /\ tk.pc = "gc_variant"
    /\ t \in endpoint_lock[tk.name].readers
    /\ endpoint_lock' = [endpoint_lock EXCEPT ![tk.name].readers = @ \ {t}]
    /\ IF mcp_client[tk.name].some
       THEN /\ tasks' = [tasks EXCEPT ![t] = AfterClient(tk, mcp_client[tk.name])]
            /\ UNCHANGED <<sessions, mcp_client>>
       ELSE IF registry[tk.name].endpoint_type = "Local"
       THEN /\ tasks' = [tasks EXCEPT ![t].pc = "done", ![t].res = "NotRunning"]
            /\ UNCHANGED <<sessions, mcp_client>>
       ELSE \E outcome \in {"Ok", "McpProtocol"} :
            IF outcome = "Ok"
            THEN /\ tasks' = [tasks EXCEPT ![t] =
                       AfterClient([tk EXCEPT !.contact = @ \cup {"handshake"},
                                              !.made = Some(NewSession(t))],
                                   Some(NewSession(t)))]
                 /\ sessions' = sessions \cup {NewSession(t)}
                 /\ mcp_client' = [mcp_client EXCEPT ![tk.name] = Some(NewSession(t))]
            ELSE /\ tasks' = [tasks EXCEPT ![t].pc = "done",
                                           ![t].res = "McpProtocol",
                                           ![t].contact = @ \cup {"handshake"}]
                 /\ UNCHANGED <<sessions, mcp_client>>
    /\ UNCHANGED <<registry, calls, fixedVars>>

\* LocalEndpoint::get_or_create_client / RemoteEndpoint::get_or_create_client,
\* then the drop of the read guard
GetOrCreateClient(t) ==
    LET tk == tasks[t] IN
    /\ tk.pc = "gc_variant"
    /\ t \in endpoint_lock[tk.name].readers
    /\ endpoint_lock' = [endpoint_lock EXCEPT ![tk.name].readers = @ \ {t}]
    /\ IF mcp_client[tk.name].some
       THEN /\ tasks' = [tasks EXCEPT ![t] = AfterClient(tk, mcp_client[tk.name])]
            /\ UNCHANGED sessions
       ELSE IF registry[tk.name].endpoint_type = "Local"
       THEN /\ tasks' = [tasks EXCEPT ![t].pc = "done", ![t].res = "NotRunning"]
            /\ UNCHANGED sessions
       ELSE \E outcome \in {"Ok", "McpProtocol"} :
            IF outcome = "Ok"
            THEN /\ tasks' = [tasks EXCEPT ![t] =
                       AfterClient([tk EXCEPT !.contact = @ \cup {"handshake"},
                                              !.made = Some(NewSession(t))],
                                   Some(NewSession(t)))]
                 /\ sessions' = sessions \cup {NewSession(t)}
            ELSE /\ tasks' = [tasks EXCEPT ![t].pc = "done",
                                           ![t].res = "McpProtocol",
                                           ![t].contact = @ \cup {"handshake"}]
                 /\ UNCHANGED sessions
    /\ UNCHANGED <<registry, mcp_client, calls, fixedVars>>

\* mcp_list_tools / mcp_call_tool: the backend operation on the client and
\* the handler's response
Backend(t) ==
    LET tk == tasks[t] IN
    /\ tk.pc = "backend"
    /\ \E outcome \in {"Ok", "McpProtocol", "McpTimeout"} :
         tasks' = [tasks EXCEPT ![t] =
            [tk EXCEPT !.pc = "done", !.res = outcome,
                       !.contact = @ \cup {IF tk.op = "list_tools" THEN "list" ELSE "call"},
                       !.out = IF tk.op = "list_tools" /\ outcome = "Ok"
                               THEN apply_tool_filter(BackendTools, tk.route_filter)
                               ELSE <<>>]]
    /\ UNCHANGED <<registry, mcp_client, endpoint_lock, sessions, calls, fixedVars>>

\* a protocol request (tools/list or tools/call) arrives at the service
\* nested at /mcp/{path}: the session's StdioBridge holds the client the
\* service was created with
BeginBridge(t, kind, path, tool) ==
    /\ tasks[t].pc = "idle"
    /\ calls < MaxCalls
    /\ path \in DOMAIN mounted
    /\ calls' = calls + 1
    /\ tasks' = [tasks EXCEPT ![t] =
                    [IdleTask EXCEPT !.id = calls + 1, !.pc = "bridge", !.op = kind,
                                     !.path = path, !.tool = tool,
                                     !.name = mounted[path].server_name,
                                     !.client = mounted[path].client]]
    /\ UNCHANGED <<registry, mcp_client, endpoint_lock, sessions, fixedVars>>

\* StdioBridge::list_tools / StdioBridge::call_tool: the request is
\* forwarded to the client and the result converted
Bridge(t) ==
    LET tk == tasks[t] IN
    /\ tk.pc = "bridge"
    /\ \E outcome \in {"Ok", "McpProtocol"} :
         tasks' = [tasks EXCEPT ![t] =
            [tk EXCEPT !.pc = "done", !.res = outcome,
                       !.contact = @ \cup {IF tk.op = "bridge_list_tools"
                                           THEN "list" ELSE "call"},
                       !.out = IF tk.op = "bridge_list_tools" /\ outcome = "Ok"
                               THEN BackendTools
                               ELSE <<>>]]
    /\ UNCHANGED <<registry, mcp_client, endpoint_lock, sessions, calls, fixedVars>>

(* --------------------------- session actor ---------------------------- *)

\* capacity of the request channel
REQUEST_BUFFER == 32
\* most pages a backend tool listing has
MaxPages == 2

\* enum RuntimeState
RtRunning == [st |-> "Running"]
RtStopped == [st |-> "Stopped"]
RtFailed(details) == [st |-> "Failed", details |-> details]

\* Result<T> of a handle call or of a backend operation on behalf of message `of`
Reply(err, of, details) == [err |-> err, of |-> of, details |-> details]

\* ids of the handle calls
OpIds == 1..MaxCalls

\* enum ServiceRequest and the payload of CallTool
RequestKinds ==
    {<<"ListTools", None>>, <<"Stop", None>>} \cup {<<"CallTool", r>> : r \in RequestTools}

NoMsg == [kind |-> None]

\* a caller that is not inside a handle call
IdleCaller ==
    [pc |-> "idle", id |-> 0, kind |-> None, request |-> None, enq |-> FALSE,
     res |-> NoneV]

\* a oneshot channel not yet created, or used up
NoChannel == [tx |-> FALSE, rx |-> FALSE, v |-> NoneV]

\* spawn_runtime: the handle and the worker right after the call
spawn_runtime ==
    /\ state = RtRunning
    /\ rx = <<>>
    /\ worker = [pc |-> "recv", msg |-> NoMsg, page |-> 0]
    /\ callers = [c \in Tasks |-> IdleCaller]
    /\ resp = [i \in OpIds |-> NoChannel]
    /\ service_log = <<>>
    /\ enqueued = <<>>
    /\ tx_dropped = FALSE
    /\ ops = 0

\* McpRuntimeHandle::ensure_running: the error, or Ok
ensure_running(st) ==
    IF st.st = "Running" THEN Reply("Ok", 0, None)
    ELSE IF st.st = "Stopped" THEN Reply("NotRunning", 0, None)
    ELSE Reply("RuntimeFailed", 0, st.details)

\* set_state: the state written for the result of service.close()
set_state(result) ==
    IF result = "Ok" THEN RtStopped ELSE RtFailed(result)

\* a caller enters list_tools / call_tool / stop of the handle:
\* self.ensure_running(server_name).await?
BeginOp(c, kind, request) ==
    /\ callers[c].pc \in {"idle", "done"}
    /\ ~tx_dropped
    /\ ops < MaxCalls
    /\ ops' = ops + 1
    /\ callers' = [callers EXCEPT ![c] =
          IF ensure_running(state).err = "Ok"
          THEN [IdleCaller EXCEPT !.pc = "send", !.id = ops + 1, !.kind = kind,
                                  !.request = request]
          ELSE [IdleCaller EXCEPT !.pc = "done", !.id = ops + 1, !.kind = kind,
                                  !.request = request,
                                  !.res = Some(ensure_running(state))]]
    /\ UNCHANGED <<state, rx, worker, resp, service_log, enqueued, tx_dropped, hostVars>>

\* list_tools / call_tool / stop: oneshot::channel(), tx.send(..).await, and
\* runtime_failed when the receiver is gone
Send(c) ==
    LET cl == callers[c] IN
    /\ cl.pc = "send"
    /\ IF worker.pc = "exited"
       THEN /\ state' = RtFailed("worker channel closed")
            /\ callers' = [callers EXCEPT ![c] =
                  [cl EXCEPT !.pc = "done",
                             !.res = Some(Reply("RuntimeFailed", 0, "worker channel closed"))]]
            /\ UNCHANGED <<rx, resp, enqueued>>
       ELSE /\ Len(rx) < REQUEST_BUFFER
            /\ rx' = Append(rx, [id |-> cl.id, kind |-> cl.kind, request |-> cl.request])
            /\ enqueued' = Append(enqueued, cl.id)
            /\ resp' = [resp EXCEPT ![cl.id] = [tx |-> TRUE, rx |-> TRUE, v |-> NoneV]]
            /\ callers' = [callers EXCEPT ![c] = [cl EXCEPT !.pc = "wait", !.enq = TRUE]]
            /\ UNCHANGED state
    /\ UNCHANGED <<worker, service_log, tx_dropped, ops, hostVars>>

\* list_tools / call_tool / stop: resp_rx.await
AwaitReply(c) ==
    LET cl == callers[c] IN
    /\ cl.pc = "wait"
    /\ \/ /\ resp[cl.id].v.some
          /\ callers' = [callers EXCEPT ![c] =
                IF cl.kind = "Stop" /\ resp[cl.id].v.v.err = "Ok"
                THEN [cl EXCEPT !.pc = "join"]
                ELSE [cl EXCEPT !.pc = "done", !.res = resp[cl.id].v]]
       \/ /\ ~resp[cl.id].v.some /\ ~resp[cl.id].tx
          /\ callers' = [callers EXCEPT ![c] =
                [cl EXCEPT !.pc = "done", !.res = Some(Reply("McpCancelled", 0, None))]]
    /\ resp' = [resp EXCEPT ![cl.id] = NoChannel]
    /\ UNCHANGED <<state, rx, worker, service_log, enqueued, tx_dropped, ops, hostVars>>

\* stop: join_lock.take() and join_handle.await
Join(c) ==
    LET cl == callers[c] IN
    /\ cl.pc = "join"
    /\ worker.pc = "exited"
    /\ callers' = [callers EXCEPT ![c] =
          [cl EXCEPT !.pc = "done", !.res = Some(Reply("Ok", cl.id, None))]]
    /\ UNCHANGED <<state, rx, worker, resp, service_log, enqueued, tx_dropped, ops, hostVars>>

\* the caller's future is dropped while it waits for the worker (the
\* handler's request timeout): the reply receiver is dropped with it
Abandon(c) ==
    LET cl == callers[c] IN
    /\ cl.pc \in {"wait", "join"}
    /\ resp' = [resp EXCEPT ![cl.id].rx = FALSE]
    /\ callers' = [callers EXCEPT ![c] =
          [cl EXCEPT !.pc = "done", !.res = Some(Reply("Abandoned", 0, None))]]
    /\ UNCHANGED <<state, rx, worker, service_log, enqueued, tx_dropped, ops, hostVars>>

\* the last clone of the handle is dropped
DropSenders ==
    /\ ~tx_dropped
    /\ \A c \in Tasks : callers[c].pc \in {"idle", "done"}
    /\ tx_dropped' = TRUE
    /\ UNCHANGED <<state, rx, worker, callers, resp, service_log, enqueued, ops, hostVars>>

\* a channel that hands out the newest message first
dequeue_lifo(q) == [msg |-> q[Len(q)], rest |-> SubSeq(q, 1, Len(q) - 1)]

\* rx.recv(): the oldest message of the channel, and the channel after it
dequeue(q) == [msg |-> Head(q), rest |-> Tail(q)]

\* a worker that skips a message whose reply receiver is gone
Dispatch_SkipClosed(msg) ==
    IF msg.kind = "Stop" THEN "close"
    ELSE IF ~resp[msg.id].rx THEN "recv"
    ELSE "exec"

\* the worker's match on the received message
Dispatch(msg) == IF msg.kind = "Stop" THEN "close" ELSE "exec"

\* a worker that answers on the oldest open reply channel
deliver_oldest_open(channels, msg, reply) ==
    LET open == {i \in OpIds : channels[i].tx}
        j == CHOOSE i \in open : \A k \in open : i <= k
    IN  [channels EXCEPT ![j] =
            [tx |-> FALSE, rx |-> @.rx, v |-> IF @.rx THEN Some(reply) ELSE NoneV]]

\* let _ = resp.send(result): the reply channels after the send
deliver(channels, msg, reply) ==
    [channels EXCEPT ![msg.id] =
        [tx |-> FALSE, rx |-> @.rx, v |-> IF @.rx THEN Some(reply) ELSE NoneV]]

\* worker loop: rx.recv().await
Recv ==
    /\ worker.pc = "recv"
    /\ IF rx # <<>>
       THEN /\ worker' = [pc |-> Dispatch(dequeue(rx).msg), msg |-> dequeue(rx).msg,
                          page |-> 1]
            /\ rx' = dequeue(rx).rest
       ELSE /\ tx_dropped
            /\ worker' = [pc |-> "close", msg |-> NoMsg, page |-> 0]
            /\ UNCHANGED rx
    /\ UNCHANGED <<state, callers, resp, service_log, enqueued, tx_dropped, ops, hostVars>>

\* list_tools_from_service / call_tool_on_service: one backend request, then
\* the next page or the reply
Exec ==
    /\ worker.pc = "exec"
    /\ service_log' = Append(service_log,
          [id |-> worker.msg.id, kind |-> worker.msg.kind,
           request |-> worker.msg.request, page |-> worker.page])
    /\ \/ /\ worker.msg.kind = "ListTools" /\ worker.page < MaxPages
          /\ worker' = [worker EXCEPT !.page = @ + 1]
          /\ UNCHANGED resp
       \/ \E outcome \in {"Ok", "McpService"} :
          /\ resp' = deliver(resp, worker.msg,
                             Reply(outcome, worker.msg.id, worker.msg.request))
          /\ worker' = [pc |-> "recv", msg |-> NoMsg, page |-> 0]
    /\ UNCHANGED <<state, rx, callers, enqueued, tx_dropped, ops, hostVars>>

\* a channel whose messages outlive the receiver
DropQueued_Leaks(channels, q) == channels

\* the reply senders of the messages still in the channel are dropped
DropQueued(channels, q) ==
    [i \in OpIds |->
        IF \E k \in 1..Len(q) : q[k].id = i
        THEN [channels[i] EXCEPT !.tx = FALSE]
        ELSE channels[i]]

\* worker loop, Stop and None arms: service.close(), set_state, the reply
\* to the Stop message, break
Close ==
    /\ worker.pc = "close"
    /\ \E result \in {"Ok", "McpClientStopFailed"} :
         /\ state' = set_state(result)
         /\ service_log' = Append(service_log,
               [id |-> IF worker.msg = NoMsg THEN 0 ELSE worker.msg.id,
                kind |-> "close", request |-> result, page |-> 1])
         /\ resp' = DropQueued(IF worker.msg = NoMsg THEN resp
                               ELSE deliver(resp, worker.msg,
                                            Reply(result, worker.msg.id, None)),
                               rx)
    /\ rx' = <<>>
    /\ worker' = [pc |-> "exited", msg |-> NoMsg, page |-> 0]
    /\ UNCHANGED <<callers, enqueued, tx_dropped, ops, hostVars>>

\* the worker task panics inside a backend operation: the task ends there;
\* rx, the messages in it and the reply sender in hand are dropped
Panic ==
    /\ worker.pc \in {"exec", "close"}
    /\ resp' = DropQueued(IF worker.msg = NoMsg THEN resp
                          ELSE [resp EXCEPT ![worker.msg.id].tx = FALSE],
                          rx)
    /\ rx' = <<>>
    /\ worker' = [pc |-> "exited", msg |-> NoMsg, page |-> 0]
    /\ UNCHANGED <<state, callers, service_log, enqueued, tx_dropped, ops, hostVars>>

(* ------------------------ the running gateway ------------------------- *)

\* the configuration entries
Config(n) ==
    [name |-> n, path |-> IF n = "a" THEN NoneV ELSE Some("pb"),
     endpoint_type |-> ConfigType(n),
     tools |-> IF n = "a"
               THEN Some([include |-> Some(<<"t1", "t2">>), exclude |-> Some(<<"t2">>)])
               ELSE NoneV]

\* init_local_endpoint / init_remote_endpoint: the registry after registering n
init_endpoint(reg, n) == register(reg, n, n, ConfigType(n))

NoCall == [op |-> None]

\* the state after EndpointManager::init_from_config and
\* PathRouter::init_from_config
Init ==
    /\ registry = init_endpoint(init_endpoint(<<>>, "a"), "b")
    /\ mcp_client = [n \in Names |-> NoneV]
    /\ endpoint_lock = [n \in Names |-> Unlocked]
    /\ path_to_endpoint = insert_route(insert_route(<<>>, Config("a")), Config("b"))
    /\ sessions = {}
    /\ tasks = [t \in Tasks |-> IdleTask]
    /\ calls = 0
    /\ last = NoCall
    /\ filter = NoneV
    /\ tool_name = None
    /\ verdict = NoneV
    /\ spawn_runtime
    /\ tool_def = NoneV
    /\ converted = NoneV
    /\ NoListing
    /\ mounted = <<>>

\* the handler turns the call's result into the response; the task ends
Respond(t) ==
    /\ tasks[t].pc = "done"
    /\ tasks' = [tasks EXCEPT ![t] = IdleTask]
    /\ UNCHANGED <<registry, mcp_client, endpoint_lock, sessions, calls, fixedVars>>

Next ==
    \E t \in Tasks :
        \/ \E kind \in {"start", "stop", "restart"}, n \in Names \cup {Ghost} :
              BeginLifecycle(t, kind, n)
        \/ BeginShutdown(t)
        \/ \E p \in Paths \cup {Ghost} : BeginRequest(t, "list_tools", p, None)
        \/ \E p \in Paths \cup {Ghost}, tool \in RequestTools :
              BeginRequest(t, "call_tool", p, tool)
        \/ Respond(t)
        \/ StartGet(t)
        \/ StartSetStarting(t)
        \/ AcquireWrite(t)
        \/ StartVariant(t)
        \/ StartStatus(t)
        \/ StopGet(t)
        \/ StopSetStopping(t)
        \/ StopVariant(t)
        \/ StopStatus(t)
        \/ RestartSleep(t)
        \/ ShutdownNext(t)
        \/ GetRoute(t)
        \/ GetClientGet(t)
        \/ AcquireRead(t)
        \/ GetOrCreateClient(t)
        \/ Backend(t)

Spec == Init /\ [][Next]_vars

(* ------------------- calls that do not overlap ------------------------ *)

\* no task is inside a call
Quiet == \A t \in Tasks : tasks[t].pc = "idle"

\* the gateway when every call returns before the next one begins
NextSeq ==
    \E t \in Tasks :
        \/ \E kind \in {"start", "stop", "restart"}, n \in Names \cup {Ghost} :
              Quiet /\ BeginLifecycle(t, kind, n)
        \/ Quiet /\ BeginShutdown(t)
        \/ \E p \in Paths \cup {Ghost} :
              Quiet /\ BeginRequest(t, "list_tools", p, None)
        \/ \E p \in Paths \cup {Ghost}, tool \in RequestTools :
              Quiet /\ BeginRequest(t, "call_tool", p, tool)
        \/ Respond(t)
        \/ StartGet(t)
        \/ StartSetStarting(t)
        \/ AcquireWrite(t)
        \/ StartVariant(t)
        \/ StartStatus(t)
        \/ StopGet(t)
        \/ StopSetStopping(t)
        \/ StopVariant(t)
        \/ StopStatus(t)
        \/ RestartSleep(t)
        \/ ShutdownNext(t)
        \/ GetRoute(t)
        \/ GetClientGet(t)
        \/ AcquireRead(t)
        \/ GetOrCreateClient(t)
        \/ Backend(t)

SpecSeq == Init /\ [][NextSeq]_vars

(* ------------------ the gateway with the bridge mounted --------------- *)

\* the session the Local endpoint's auto-start created
BootSession == 0

\* the state after start_server: the Local endpoint was auto-started, has
\* its client stored and its bridge service nested at its path with that
\* client; the Remote endpoint is registered
InitServe ==
    /\ registry = set_status(init_endpoint(init_endpoint(<<>>, "a"), "b"), "a", "Running")
    /\ mcp_client = [n \in Names |-> IF n = "a" THEN Some(BootSession) ELSE NoneV]
    /\ endpoint_lock = [n \in Names |-> Unlocked]
    /\ path_to_endpoint = insert_route(insert_route(<<>>, Config("a")), Config("b"))
    /\ sessions = {BootSession}
    /\ tasks = [t \in Tasks |-> IdleTask]
    /\ calls = 0
    /\ last = NoCall
    /\ filter = NoneV
    /\ tool_name = None
    /\ verdict = NoneV
    /\ spawn_runtime
    /\ tool_def = NoneV
    /\ converted = NoneV
    /\ NoListing
    /\ mounted = (get_path(Config("a")) :>
                     [client |-> Some(BootSession), server_name |-> "a"])

NextServe ==
    \E t \in Tasks :
        \/ \E kind \in {"start", "stop", "restart"}, n \in Names \cup {Ghost} :
              BeginLifecycle(t, kind, n)
        \/ BeginShutdown(t)
        \/ \E p \in Paths \cup {Ghost} : BeginRequest(t, "list_tools", p, None)
        \/ \E p \in Paths \cup {Ghost}, tool \in RequestTools :
              BeginRequest(t, "call_tool", p, tool)
        \/ \E p \in Paths : BeginBridge(t, "bridge_list_tools", p, None)
        \/ \E p \in Paths, tool \in RequestTools :
              BeginBridge(t, "bridge_call_tool", p, tool)
        \/ Respond(t)
        \/ StartGet(t)
        \/ StartSetStarting(t)
        \/ AcquireWrite(t)
        \/ StartVariant(t)
        \/ StartStatus(t)
        \/ StopGet(t)
        \/ StopSetStopping(t)
        \/ StopVariant(t)
        \/ StopStatus(t)
        \/ RestartSleep(t)
        \/ ShutdownNext(t)
        \/ GetRoute(t)
        \/ GetClientGet(t)
        \/ AcquireRead(t)
        \/ GetOrCreateClient(t)
        \/ Backend(t)
        \/ Bridge(t)

SpecServe == InitServe /\ [][NextServe]_vars

(* --------------------- the gateway being initialised ------------------ *)

\* sequences over S of length at most n
RECURSIVE SeqsUpTo(_, _)
SeqsUpTo(S, n) ==
    IF n = 0 THEN {<<>>}
    ELSE LET shorter == SeqsUpTo(S, n - 1) IN
         shorter \cup {Append(q, x) : q \in shorter, x \in S}

\* most entries of a configuration
MaxConfigs == 2

\* configuration entries: name, kind, and auto_start of a Local endpoint
ConfigEntries ==
    [name : Names, endpoint_type : {"Local"}, auto_start : BOOLEAN]
    \cup [name : Names, endpoint_type : {"Remote"}, auto_start : {FALSE}]

\* EndpointManager::new, and init_from_config called with a configuration
InitBoot ==
    /\ registry = <<>>
    /\ mcp_client = [n \in Names |-> NoneV]
    /\ endpoint_lock = [n \in Names |-> Unlocked]
    /\ path_to_endpoint = <<>>
    /\ sessions = {}
    /\ \E configs \in SeqsUpTo(ConfigEntries, MaxConfigs) :
          tasks = [t \in Tasks |->
                     IF t = 1
                     THEN [IdleTask EXCEPT !.id = 1, !.pc = "init", !.op = "init",
                                           !.configs = configs]
                     ELSE IdleTask]
    /\ calls = 1
    /\ last = NoCall
    /\ filter = NoneV
    /\ tool_name = None
    /\ verdict = NoneV
    /\ spawn_runtime
    /\ tool_def = NoneV
    /\ converted = NoneV
    /\ NoListing
    /\ mounted = <<>>

NextBoot ==
    \E t \in Tasks :
        \/ InitNext(t)
        \/ StartGet(t)
        \/ StartSetStarting(t)
        \/ AcquireWrite(t)
        \/ StartVariant(t)
        \/ StartStatus(t)

SpecBoot == InitBoot /\ [][NextBoot]_vars

(* ------------------- registry and router in isolation ----------------- *)

\* paths given to EndpointRegistry::register
RegPaths == {"a", "p"}

\* configuration entries given to PathRouter::init_from_config
RouteConfigs ==
    [name : Names, path : {NoneV, Some("p")},
     tools : {NoneV}]

\* variables the registry and the router never change
gatewayVars == <<mcp_client, endpoint_lock, sessions, tasks, calls,
                 filter, tool_name, verdict, actorVars, bridgeVars, listVars, mounted>>

\* EndpointRegistry::register
Register(n, p, k) ==
    /\ registry' = register(registry, n, p, k)
    /\ last' = [op |-> "register", name |-> n, path |-> p,
                res |-> register_result(registry, n)]
    /\ UNCHANGED <<path_to_endpoint, gatewayVars>>

\* EndpointRegistry::set_status
SetStatus(n, st) ==
    /\ registry' = set_status(registry, n, st)
    /\ last' = [op |-> "set_status", name |-> n, path |-> None,
                res |-> IF n \in DOMAIN registry THEN "Ok" ELSE "NotFound"]
    /\ UNCHANGED <<path_to_endpoint, gatewayVars>>

\* PathRouter::init_from_config, one configuration entry
InsertRoute(config) ==
    /\ path_to_endpoint' = insert_route(path_to_endpoint, config)
    /\ last' = [op |-> "insert_route", name |-> config.name,
                path |-> get_path(config), res |-> "Ok"]
    /\ UNCHANGED <<registry, gatewayVars>>

\* EndpointRegistry::new and PathRouter::new
InitRegistry ==
    /\ registry = <<>>
    /\ path_to_endpoint = <<>>
    /\ mcp_client = [n \in Names |-> NoneV]
    /\ endpoint_lock = [n \in Names |-> Unlocked]
    /\ sessions = {}
    /\ tasks = [t \in Tasks |-> IdleTask]
    /\ calls = 0
    /\ last = NoCall
    /\ filter = NoneV
    /\ tool_name = None
    /\ verdict = NoneV
    /\ spawn_runtime
    /\ tool_def = NoneV
    /\ converted = NoneV
    /\ NoListing
    /\ mounted = <<>>

NextRegistry ==
    \/ \E n \in Names, p \in RegPaths, k \in EndpointType : Register(n, p, k)
    \/ \E n \in Names \cup {Ghost}, st \in EndpointStatus : SetStatus(n, st)
    \/ \E config \in RouteConfigs : InsertRoute(config)

SpecRegistry == InitRegistry /\ [][NextRegistry]_vars

(* ----------------------- tool filter evaluation ----------------------- *)

\* Option<Vec<String>>
OptionLists == {NoneV} \cup {Some(l) : l \in SeqsUpTo(ToolNames, MaxLen)}

\* Option<ToolFilter>
OptionFilters ==
    {NoneV} \cup {Some(f) : f \in [include : OptionLists, exclude : OptionLists]}

\* a filter and a tool name, not yet evaluated
InitFilter ==
    /\ filter \in OptionFilters
    /\ tool_name \in ToolNames
    /\ verdict = NoneV
    /\ registry = <<>>
    /\ path_to_endpoint = <<>>
    /\ mcp_client = [n \in Names |-> NoneV]
    /\ endpoint_lock = [n \in Names |-> Unlocked]
    /\ sessions = {}
    /\ tasks = [t \in Tasks |-> IdleTask]
    /\ calls = 0
    /\ last = NoCall
    /\ spawn_runtime
    /\ tool_def = NoneV
    /\ converted = NoneV
    /\ NoListing
    /\ mounted = <<>>

\* is_tool_allowed(tool_name, filter)
Evaluate ==
    /\ ~verdict.some
    /\ verdict' = Some(is_tool_allowed(tool_name, filter))
    /\ UNCHANGED <<filter, tool_name, registry, path_to_endpoint, mcp_client,
                   endpoint_lock, sessions, tasks, calls, last, actorVars, bridgeVars, listVars, mounted>>

\* longest backend tool list handed to apply_tool_filter
MaxTools == 3

\* apply_tool_filter(tools, filter) on a backend tool list
ApplyToolFilter ==
    /\ last = NoCall
    /\ \E tools \in SeqsUpTo(ToolNames, MaxTools) :
          last' = [op |-> "apply_tool_filter", tools |-> tools,
                   res |-> apply_tool_filter(tools, filter)]
    /\ UNCHANGED <<filter, tool_name, verdict, registry, path_to_endpoint, mcp_client,
                   endpoint_lock, sessions, tasks, calls, actorVars, bridgeVars, listVars, mounted>>

NextFilter == Evaluate \/ ApplyToolFilter

SpecFilter == InitFilter /\ [][NextFilter]_vars

(* ------------------ the invocation handler, run twice ------------------ *)

\* ProxyError::status_code, and 200 for a handler that returns Ok
status_code(kind) ==
    IF kind = "Ok" THEN 200
    ELSE IF kind = "NotFound" THEN 404
    ELSE IF kind \in {"AlreadyExists", "AlreadyRunning"} THEN 409
    ELSE IF kind \in {"NotRunning", "RuntimeFailed"} THEN 503
    ELSE IF kind = "McpProtocol" THEN 502
    ELSE IF kind = "InvalidRequest" THEN 400
    ELSE IF kind = "ToolNotAllowed" THEN 403
    ELSE 500

\* mcp_call_tool past a successful get_client, against a backend that has the
\* tools `has`: the response (IntoResponse for ProxyError) and the requests
\* the backend received
mcp_call_tool(name, f, has) ==
    LET tk == AfterClient([IdleTask EXCEPT !.op = "call_tool", !.tool = name,
                                           !.route_filter = f],
                          Some(BootSession))
        kind == IF tk.pc = "done" THEN tk.res
                ELSE IF name \in has THEN "Ok" ELSE "McpProtocol"
    IN  [code |-> status_code(kind),
         error |-> IF kind = "Ok" THEN NoneV ELSE Some(<<kind, name>>),
         traffic |-> IF tk.pc = "done" THEN <<>> ELSE <<name>>]

\* the same call-tool request served by two gateways whose backends differ
\* at most in whether they have the named tool
McpCallTool ==
    /\ last = NoCall
    /\ \E has1, has2 \in SUBSET ToolNames :
          /\ has1 \ {tool_name} = has2 \ {tool_name}
          /\ last' = [op |-> "mcp_call_tool", backends |-> <<has1, has2>>,
                      runs |-> <<mcp_call_tool(tool_name, filter, has1),
                                 mcp_call_tool(tool_name, filter, has2)>>]
    /\ UNCHANGED <<filter, tool_name, verdict, registry, path_to_endpoint, mcp_client,
                   endpoint_lock, sessions, tasks, calls, actorVars, bridgeVars,
                   listVars, mounted>>

NextReject == McpCallTool

SpecReject == InitFilter /\ [][NextReject]_vars

(* ------------------------ the bridge's conversion --------------------- *)

\* struct ToolDefinition
ToolDefinitions ==
    [name : ToolNames,
     description : {NoneV, Some("A test tool")},
     input_schema : JsonScalars \cup JsonArrays \cup JsonObjects]

\* a tool definition not yet converted
InitBridge ==
    /\ tool_def \in {Some(td) : td \in ToolDefinitions}
    /\ converted = NoneV
    /\ NoListing
    /\ mounted = <<>>
    /\ registry = <<>>
    /\ path_to_endpoint = <<>>
    /\ mcp_client = [n \in Names |-> NoneV]
    /\ endpoint_lock = [n \in Names |-> Unlocked]
    /\ sessions = {}
    /\ tasks = [t \in Tasks |-> IdleTask]
    /\ calls = 0
    /\ last = NoCall
    /\ filter = NoneV
    /\ tool_name = None
    /\ verdict = NoneV
    /\ state = RtRunning
    /\ rx = <<>>
    /\ worker = [pc |-> "recv", msg |-> NoMsg, page |-> 0]
    /\ callers = [c \in Tasks |-> IdleCaller]
    /\ resp = [i \in OpIds |-> NoChannel]
    /\ service_log = <<>>
    /\ enqueued = <<>>
    /\ tx_dropped = FALSE
    /\ ops = 0

\* build_rmcp_tool(tool_def)
BuildRmcpTool ==
    /\ tool_def.some /\ ~converted.some
    /\ converted' = Some(build_rmcp_tool(tool_def.v))
    /\ UNCHANGED <<tool_def, registry, mcp_client, endpoint_lock, path_to_endpoint,
                   sessions, tasks, calls, last, filter, tool_name, verdict,
                   actorVars, listVars, mounted>>

NextBridge == BuildRmcpTool

SpecBridge == InitBridge /\ [][NextBridge]_vars

(* ---------------------------- tool listing ---------------------------- *)

\* most page requests of one listing that are followed
MaxRequests == 4

\* the cursors a backend hands out
Cursors == {"c1", "c2"}

\* Option<String>: the cursor of a page request or of a page
CursorOpts == {NoneV} \cup {Some(c) : c \in Cursors}

\* rmcp Tool as a backend lists it
RmcpTool(n) ==
    [name |-> n,
     description |-> IF n = "t1" THEN Some("A test tool") ELSE NoneV,
     input_schema |-> EmptyMap]

\* the tools a page can hold
PageTools == {<<>>, <<RmcpTool("t1")>>, <<RmcpTool("t2"), RmcpTool("t3")>>}

\* service.list_tools(request).await: a ListToolsResult or a ServiceError
ListToolsResults ==
    {[ok |-> FALSE]} \cup
    {[ok |-> TRUE, tools |-> ts, next_cursor |-> c] : ts \in PageTools, c \in CursorOpts}

\* the closure building a ToolDefinition from an rmcp Tool
to_tool_definition(tl) ==
    [name |-> tl.name,
     description |-> tl.description,
     input_schema |-> [t |-> "object", map |-> tl.input_schema]]

\* a listing that puts each page in front of the pages before it
extend_front(list, items) == items \o list

\* Vec::extend
extend(list, items) == list \o items

\* list_tools_from_service: one iteration of the loop, a page request and
\* what follows it: the next iteration, the break and Ok(tool_list), or the
\* return of the error
ListPage ==
    /\ ~list_result.some
    /\ Len(page_requests) < MaxRequests
    /\ page_requests' = Append(page_requests, cursor)
    /\ LET result == service[cursor] IN
       IF result.ok
       THEN /\ tool_list' = extend(tool_list,
                                   [i \in 1..Len(result.tools) |->
                                       to_tool_definition(result.tools[i])])
            /\ cursor' = result.next_cursor
            /\ list_result' = IF result.next_cursor.some THEN NoneV
                              ELSE Some([ok |-> TRUE, v |-> tool_list'])
       ELSE /\ list_result' = Some([ok |-> FALSE, err |-> "McpService"])
            /\ UNCHANGED <<tool_list, cursor>>
    /\ UNCHANGED <<service, registry, mcp_client, endpoint_lock, path_to_endpoint,
                   sessions, tasks, calls, last, filter, tool_name, verdict,
                   bridgeVars, actorVars, mounted>>

\* a listing about to begin on a backend with some paginated tool listing
InitListing ==
    /\ service \in [CursorOpts -> ListToolsResults]
    /\ cursor = NoneV
    /\ tool_list = <<>>
    /\ page_requests = <<>>
    /\ list_result = NoneV
    /\ mounted = <<>>
    /\ registry = <<>>
    /\ path_to_endpoint = <<>>
    /\ mcp_client = [n \in Names |-> NoneV]
    /\ endpoint_lock = [n \in Names |-> Unlocked]
    /\ sessions = {}
    /\ tasks = [t \in Tasks |-> IdleTask]
    /\ calls = 0
    /\ last = NoCall
    /\ filter = NoneV
    /\ tool_name = None
    /\ verdict = NoneV
    /\ spawn_runtime
    /\ tool_def = NoneV
    /\ converted = NoneV

NextListing == ListPage

\* the worker is a task of its own and each page request returns
SpecListing == InitListing /\ [][NextListing]_vars /\ WF_vars(ListPage)

(* ----------------------- the session actor alone ---------------------- *)

\* a freshly spawned session actor, no gateway around it
InitActor ==
    /\ spawn_runtime
    /\ tool_def = NoneV
    /\ converted = NoneV
    /\ NoListing
    /\ mounted = <<>>
    /\ registry = <<>>
    /\ path_to_endpoint = <<>>
    /\ mcp_client = [n \in Names |-> NoneV]
    /\ endpoint_lock = [n \in Names |-> Unlocked]
    /\ sessions = {}
    /\ tasks = [t \in Tasks |-> IdleTask]
    /\ calls = 0
    /\ last = NoCall
    /\ filter = NoneV
    /\ tool_name = None
    /\ verdict = NoneV

NextActor ==
    \/ \E c \in Tasks, k \in RequestKinds : BeginOp(c, k[1], k[2])
    \/ \E c \in Tasks : Send(c)
    \/ \E c \in Tasks : AwaitReply(c)
    \/ \E c \in Tasks : Join(c)
    \/ \E c \in Tasks : Abandon(c)
    \/ DropSenders
    \/ Recv
    \/ Exec
    \/ Close

SpecActor == InitActor /\ [][NextActor]_vars

\* the session actor with a worker that can panic
NextActorPanic ==
    \/ \E c \in Tasks, k \in RequestKinds : BeginOp(c, k[1], k[2])
    \/ \E c \in Tasks : Send(c)
    \/ \E c \in Tasks : AwaitReply(c)
    \/ \E c \in Tasks : Join(c)
    \/ \E c \in Tasks : Abandon(c)
    \/ DropSenders
    \/ Recv
    \/ Exec
    \/ Close
    \/ Panic

SpecActorPanic == InitActor /\ [][NextActorPanic]_vars

(* --------------- the session actor behind a full channel --------------- *)

\* ids of the messages that fill the channel at the start
BacklogIds == (1 - REQUEST_BUFFER)..0

\* REQUEST_BUFFER messages whose callers have given up, the k-th a Stop
Backlog(k) ==
    [i \in 1..REQUEST_BUFFER |->
        [id |-> i - REQUEST_BUFFER,
         kind |-> IF i = k THEN "Stop" ELSE "CallTool",
         request |-> "t1"]]

\* a running session whose channel is full of messages nobody waits for:
\* the worker has been busy while callers sent requests and timed out
InitActorBacklog ==
    /\ state = RtRunning
    /\ rx \in {Backlog(k) : k \in 0..1}
    /\ worker = [pc |-> "recv", msg |-> NoMsg, page |-> 0]
    /\ callers = [c \in Tasks |-> IdleCaller]
    /\ resp = [i \in BacklogIds \cup OpIds |->
                  IF i \in BacklogIds THEN [tx |-> TRUE, rx |-> FALSE, v |-> NoneV]
                  ELSE NoChannel]
    /\ service_log = <<>>
    /\ enqueued = <<>>
    /\ tx_dropped = FALSE
    /\ ops = 0
    /\ tool_def = NoneV
    /\ converted = NoneV
    /\ NoListing
    /\ mounted = <<>>
    /\ registry = <<>>
    /\ path_to_endpoint = <<>>
    /\ mcp_client = [n \in Names |-> NoneV]
    /\ endpoint_lock = [n \in Names |-> Unlocked]
    /\ sessions = {}
    /\ tasks = [t \in Tasks |-> IdleTask]
    /\ calls = 0
    /\ last = NoCall
    /\ filter = NoneV
    /\ tool_name = None
    /\ verdict = NoneV

NextActorBacklog ==
    \/ \E c \in Tasks, k \in RequestKinds : BeginOp(c, k[1], k[2])
    \/ \E c \in Tasks : Send(c)
    \/ \E c \in Tasks : AwaitReply(c)
    \/ \E c \in Tasks : Join(c)
    \/ Recv
    \/ Exec
    \/ Close
    \/ Panic

\* each caller is a task that runs on, each backend operation and the close
\* of the session return; a panic may or may not happen
SpecActorBacklog ==
    /\ InitActorBacklog
    /\ [][NextActorBacklog]_vars
    /\ \A c \in Tasks : WF_vars(Send(c)) /\ WF_vars(AwaitReply(c)) /\ WF_vars(Join(c))
    /\ WF_vars(Recv) /\ WF_vars(Exec) /\ WF_vars(Close)

(* ============================== claims ================================ *)

\* a start_endpoint or stop_endpoint call on n is between its first and last step
MidExecution(n) ==
    \E t \in Tasks : tasks[t].cur \in {"start", "stop"} /\ tasks[t].name = n

\* C1: whenever no start or stop on an endpoint is mid-execution, its
\* registry status is Running if and only if its variant holds a client handle
C1_StatusAgreesWithHandle ==
    \A n \in Names :
        ~MidExecution(n) =>
            (registry[n].status = "Running" <=> mcp_client[n].some)

\* the status edges of the documented state machine
DocumentedEdges ==
    {<<"Stopped", "Starting">>, <<"Starting", "Running">>,
     <<"Running", "Stopping">>, <<"Stopping", "Stopped">>,
     <<"Starting", "Failed">>, <<"Running", "Failed">>, <<"Stopping", "Failed">>}

\* the edges taken when a Failed endpoint is started or stopped again
RetryEdges == {<<"Failed", "Starting">>, <<"Failed", "Stopping">>}

\* every status change of a step is an edge of E
ChangesAlong(E) ==
    \A n \in Names :
        registry'[n].status # registry[n].status =>
            <<registry[n].status, registry'[n].status>> \in E

C3_NoStoppedToRunning ==
    [][\A n \in Names :
          ~(registry[n].status = "Stopped" /\ registry'[n].status = "Running")]_vars

\* task t takes the first step of the sub-call sub (registry.get and its check)
\* on an endpoint whose status is st
FirstStepOn(t, sub, st) ==
    /\ tasks[t].pc = "get" /\ tasks[t].cur = sub
    /\ tasks'[t] # tasks[t]
    /\ tasks[t].name \in DOMAIN registry
    /\ registry[tasks[t].name].status = st

\* nothing the gateway shares between calls changes in the step
SharedStateKept ==
    /\ registry' = registry
    /\ mcp_client' = mcp_client
    /\ sessions' = sessions
    /\ endpoint_lock' = endpoint_lock

\* C4: start on an endpoint whose status is Running fails with AlreadyRunning
\* and leaves the status and the cached session handle as they are; the call
\* writes no status, creates no session and contacts no backend
C4_StartOnRunning ==
    [][\A t \in Tasks :
          FirstStepOn(t, "start", "Running") =>
              /\ tasks'[t].pc = "done"
              /\ tasks'[t].res = "AlreadyRunning"
              /\ tasks'[t].wrote = tasks[t].wrote
              /\ tasks'[t].contact = {}
              /\ ~tasks'[t].made.some
              /\ SharedStateKept]_vars

\* C4 witness: a start on a Running endpoint with a cached handle has returned
C4_Witness ==
    \E t \in Tasks :
        /\ tasks[t].pc = "done" /\ tasks[t].op = "start"
        /\ tasks[t].seen = "Running" /\ tasks[t].res = "AlreadyRunning"
        /\ registry[tasks[t].name].status = "Running"
        /\ mcp_client[tasks[t].name].some

\* C5: stop on an endpoint whose status is Stopped fails with NotRunning and
\* leaves the status Stopped without writing Stopping, for either kind
C5_StopOnStopped ==
    [][\A t \in Tasks :
          FirstStepOn(t, "stop", "Stopped") =>
              /\ tasks[t].op \in {"stop", "restart"} =>
                    tasks'[t].pc = "done" /\ tasks'[t].res = "NotRunning"
              /\ tasks[t].op = "shutdown" => tasks'[t].pc = "next"
              /\ tasks'[t].wrote = tasks[t].wrote
              /\ SharedStateKept]_vars

\* a stop call on n has returned NotRunning after reading status Stopped
StoppedStopReturned(n) ==
    \E t \in Tasks :
        /\ tasks[t].pc = "done" /\ tasks[t].op = "stop" /\ tasks[t].name = n
        /\ tasks[t].seen = "Stopped" /\ tasks[t].res = "NotRunning"
        /\ tasks[t].wrote = <<>>
        /\ registry[n].status = "Stopped"

\* C5 witness: the case has happened on the Local and on the Remote endpoint
C5_Witness == StoppedStopReturned("a") /\ StoppedStopReturned("b")

Listed(list, name) == list.some /\ any(list.v, name)

\* an optional list that is absent or has no entries
EmptyOrAbsent(list) == ~list.some \/ list.v = <<>>

\* C7 (as stated): a name is allowed exactly when the include list is empty
\* or absent or contains it, and the exclude list does not contain it
C7_EmptyIncludeUnrestricted ==
    verdict.some /\ filter.some =>
        verdict.v = (/\ EmptyOrAbsent(filter.v.include)
                        \/ Listed(filter.v.include, tool_name)
                     /\ ~Listed(filter.v.exclude, tool_name))

\* C7 (amended): a name is allowed exactly when the include list is absent or
\* contains it, and the exclude list does not contain it; an include list
\* that is present with no entries allows no name
C7_AbsentIncludeUnrestricted ==
    verdict.some /\ filter.some =>
        verdict.v = (/\ ~filter.v.include.some
                        \/ Listed(filter.v.include, tool_name)
                     /\ ~Listed(filter.v.exclude, tool_name))

\* C7 witness: a name was refused by a filter whose include list is present
\* and empty and whose exclude list does not name it
C7_Witness ==
    /\ verdict.some /\ filter.some
    /\ filter.v.include.some /\ filter.v.include.v = <<>>
    /\ ~Listed(filter.v.exclude, tool_name)
    /\ verdict.v = FALSE

\* C8: a name on the exclude list is rejected whether or not it is on the
\* include list, and with no filter every name is allowed
C8_ExcludeWins ==
    verdict.some =>
        /\ filter.some /\ Listed(filter.v.exclude, tool_name) => verdict.v = FALSE
        /\ ~filter.some => verdict.v = TRUE

\* C8 witness: a name on both lists has been rejected
C8_Witness ==
    /\ verdict.some /\ filter.some
    /\ Listed(filter.v.include, tool_name)
    /\ Listed(filter.v.exclude, tool_name)
    /\ verdict.v = FALSE

\* C9: registering a name that is already registered fails with
\* AlreadyExists and leaves every entry (path, kind, status) and the number
\* of entries as they were
C9_DuplicateNameRejected ==
    [][last'.op = "register" /\ last'.name \in DOMAIN registry =>
          /\ last'.res = "AlreadyExists"
          /\ registry' = registry
          /\ Cardinality(DOMAIN registry') = Cardinality(DOMAIN registry)]_vars

\* C9 witness: a second registration of a name, with another path and kind
\* than the entry that has meanwhile left Stopped, has been refused
C9_Witness ==
    /\ last.op = "register" /\ last.res = "AlreadyExists"
    /\ last.name \in DOMAIN registry
    /\ registry[last.name].path # last.path
    /\ registry[last.name].status = "Running"

\* C10: registering a new name under a path another endpoint holds fails and
\* changes no entry, and a path that resolves to an endpoint keeps resolving
\* to that endpoint
C10_DuplicatePathRejected ==
    [][/\ /\ last'.op = "register"
          /\ last'.name \notin DOMAIN registry
          /\ \E m \in DOMAIN registry : registry[m].path = last'.path
          => last'.res # "Ok" /\ registry' = registry
       /\ \A q \in DOMAIN path_to_endpoint :
             path_to_endpoint'[q].endpoint_name = path_to_endpoint[q].endpoint_name]_vars

\* position of message id in the order of enqueuing
EnqueuePos(id) == CHOOSE k \in 1..Len(enqueued) : enqueued[k] = id

\* C11: the backend operations the worker issues follow the order in which
\* the messages were enqueued, and the requests of one message (the pages of
\* a listing) are never interleaved with those of another message
C11_FifoOneAtATime ==
    \A i \in 1..Len(service_log) :
        LET e == service_log[i] IN
        e.id # 0 =>
            /\ \E k \in 1..Len(enqueued) : enqueued[k] = e.id
            /\ IF i = 1
               THEN EnqueuePos(e.id) = 1 /\ e.page = 1
               ELSE IF service_log[i - 1].id = e.id
               THEN e.page = service_log[i - 1].page + 1
               ELSE /\ e.page = 1
                    /\ EnqueuePos(e.id) = EnqueuePos(service_log[i - 1].id) + 1

\* C11 witness: two overlapping callers enqueued in the reverse of their call
\* order, a two-page listing among them, and both messages were executed
C11_Witness ==
    /\ Len(enqueued) >= 2 /\ enqueued[1] = 2 /\ enqueued[2] = 1
    /\ \E i, j \in 1..Len(service_log) :
          /\ service_log[i].id = 2 /\ service_log[i].page = 2
          /\ service_log[j].id = 1 /\ i < j

\* replies that come from the worker
WorkerReplies == {"Ok", "McpService", "McpClientStopFailed"}

\* C12: a reply a caller receives from the worker is the result of the
\* backend operation executed for that caller's own message
C12_NoCrossTalk ==
    /\ \A c \in Tasks :
          callers[c].pc = "done" /\ callers[c].res.v.err \in WorkerReplies =>
              /\ callers[c].res.v.of = callers[c].id
              /\ callers[c].kind # "Stop" => callers[c].res.v.details = callers[c].request
    /\ \A i \in OpIds : resp[i].v.some => resp[i].v.v.of = i

\* C12 witness: two overlapping CallTool callers with different payloads have
\* both received their replies
C12_Witness ==
    /\ Len(enqueued) >= 2 /\ enqueued[1] = 2 /\ enqueued[2] = 1
    /\ \A c \in Tasks :
          /\ callers[c].pc = "done" /\ callers[c].kind = "CallTool"
          /\ callers[c].res.v.err = "Ok"
    /\ callers[1].request # callers[2].request

\* message id has had a backend operation issued for it
Executed(id) == \E i \in 1..Len(service_log) : service_log[i].id = id

\* caller c has abandoned the reply of a ListTools / CallTool message it enqueued
AbandonedCall(c) ==
    /\ callers[c].pc = "done" /\ callers[c].enq
    /\ callers[c].kind # "Stop"
    /\ callers[c].res.v.err = "Abandoned"

\* C13 (as stated): the backend operation of a message whose caller abandoned
\* the reply is never skipped: once the worker has ended it has been executed
C13_AbandonedNeverSkipped ==
    worker.pc = "exited" =>
        \A c \in Tasks : AbandonedCall(c) => Executed(callers[c].id)

\* the entry the worker logs for the backend request it issues now
ExecEntry ==
    [id |-> worker.msg.id, kind |-> worker.msg.kind,
     request |-> worker.msg.request, page |-> worker.page]

\* C13 (amended): a ListTools / CallTool message whose reply receiver is gone
\* is dequeued in its turn and executed like any other: each of its backend
\* requests is issued, the state and the channel are left alone, the result
\* is discarded and the worker returns to receiving
C13_AbandonedServedInTurn ==
    [][/\ worker.pc = "recv" /\ rx # <<>> /\ worker' # worker
          /\ Head(rx).kind # "Stop" /\ ~resp[Head(rx).id].rx
          => worker'.msg = Head(rx) /\ worker'.pc = "exec" /\ rx' = Tail(rx)
       /\ worker.pc = "exec" /\ worker' # worker /\ ~resp[worker.msg.id].rx
          => /\ service_log' = Append(service_log, ExecEntry)
             /\ state' = state
             /\ rx' = rx
             /\ worker'.pc \in {"exec", "recv"}
             /\ worker'.pc = "exec" => worker'.msg = worker.msg
             /\ ~resp'[worker.msg.id].v.some]_vars

\* C13 witness: an abandoned message was executed, the message enqueued after
\* it was executed next, and the state is still Running
C13_Witness ==
    /\ state = RtRunning
    /\ \E c \in Tasks :
          /\ AbandonedCall(c)
          /\ \E i \in 1..Len(service_log) :
                /\ service_log[i].id = callers[c].id
                /\ i < Len(service_log)
                /\ service_log[i + 1].id # callers[c].id

\* C14: the actor state changes only from Running
C14_TerminalStates == [][state' # state => state = RtRunning]_vars

\* service.close() has succeeded, so the state has been Stopped
HasStopped ==
    \E i \in 1..Len(service_log) :
        service_log[i].kind = "close" /\ service_log[i].request = "Ok"

\* C15: a handle call made while the state is Failed(reason) returns
\* ServerRuntimeFailed with that reason, and a call made after the state has
\* become Stopped returns ServerNotRunning, both without sending a message
C15_FailurePersists ==
    [][\A c \in Tasks :
          ops' = ops + 1 /\ callers'[c] # callers[c] =>
              /\ state.st = "Failed" /\ ~HasStopped =>
                    /\ callers'[c].pc = "done"
                    /\ callers'[c].res = Some(Reply("RuntimeFailed", 0, state.details))
              /\ HasStopped =>
                    /\ callers'[c].pc = "done"
                    /\ callers'[c].res = Some(Reply("NotRunning", 0, None))]_vars

\* task t takes the step of the variant's start / stop (sub) on endpoint n
VariantStep(t, sub, n) ==
    /\ tasks[t].pc = "variant" /\ tasks[t].cur = sub /\ tasks[t].name = n
    /\ tasks'[t].pc = "status"

\* C16: a Local start whose spawn or handshake fails stores no session handle
\* and creates no session; with no handle stored a variant start is not
\* rejected as AlreadyRunning and the variant's get_client fails NotRunning
C16_FailedStartNoPartialState ==
    [][\A t \in Tasks : \A n \in Names :
          /\ VariantStep(t, "start", n) /\ registry[n].endpoint_type = "Local"
             /\ tasks'[t].vres \in {"StartFailed", "McpProtocol"}
             => /\ ~mcp_client'[n].some
                /\ sessions' = sessions
                /\ ~tasks'[t].made.some
          /\ VariantStep(t, "start", n) /\ ~mcp_client[n].some
             => tasks'[t].vres # "AlreadyRunning"
          /\ /\ tasks[t].pc = "gc_variant" /\ tasks[t].name = n
             /\ tasks'[t] # tasks[t]
             /\ registry[n].endpoint_type = "Local" /\ ~mcp_client[n].some
             => tasks'[t].pc = "done" /\ tasks'[t].res = "NotRunning"]_vars

\* C16 witness: after a start of the Local endpoint failed in the handshake, a
\* later start found no handle and went on to the bootstrap
C16_Witness ==
    \E t, u \in Tasks :
        /\ tasks[t].pc = "done" /\ tasks[t].op = "start" /\ tasks[t].name = "a"
        /\ tasks[t].res = "McpProtocol"
        /\ tasks[u].cur = "start" /\ tasks[u].name = "a" /\ tasks[u].pc = "status"
        /\ tasks[u].seen = "Failed" /\ tasks[u].vres = "StartFailed"
        /\ ~mcp_client["a"].some

\* task t is inside a start_endpoint call, past its first status write
InAttempt(t) ==
    tasks[t].cur = "start" /\ tasks[t].pc \in {"lock", "variant", "status"}

\* C17: while a start_endpoint call whose variant start has failed is about
\* to write its final status, the registry status of the endpoint is not
\* Running
C17_NeverRunningInFailedAttempt ==
    \A t \in Tasks :
        InAttempt(t) /\ tasks[t].pc = "status" /\ tasks[t].vres # "Ok" =>
            registry[tasks[t].name].status # "Running"

\* s is a prefix of w
IsPrefix(s, w) == Len(s) <= Len(w) /\ SubSeq(w, 1, Len(s)) = s

\* C18: a restart writes Starting only after its stop has written Stopping and
\* Stopped; a restart that returns has either failed in stop (stop's error,
\* no Starting written), failed in start (start's error), or written
\* Stopping, Stopped, Starting, Running and stored a session it created
C18_RestartOrder ==
    [][\A t \in Tasks :
          tasks'[t].op = "restart" =>
              LET w == tasks'[t].wrote
                  n == tasks'[t].name IN
              /\ (\E i \in 1..Len(w) : w[i] = "Starting") =>
                     IsPrefix(<<"Stopping", "Stopped">>, w)
              /\ tasks'[t].pc = "sleep" => w = <<"Stopping", "Stopped">>
              /\ tasks'[t].pc = "done" /\ tasks[t].pc # "done" =>
                    \/ /\ w = <<>>
                       /\ tasks'[t].res \in {"NotFound", "NotRunning"}
                    \/ /\ w = <<"Stopping", "Failed">>
                       /\ tasks'[t].res = "NotRunning"
                    \/ /\ w = <<"Stopping", "Stopped">>
                       /\ tasks'[t].res = "AlreadyRunning"
                    \/ /\ w = <<"Stopping", "Stopped", "Starting", "Failed">>
                       /\ tasks'[t].res \in {"StartFailed", "McpProtocol", "AlreadyRunning"}
                    \/ /\ w = <<"Stopping", "Stopped", "Starting", "Running">>
                       /\ tasks'[t].res = "Ok"
                       /\ registry'[n].status = "Running"
                       /\ tasks'[t].made = Some(tasks'[t].id)
                       /\ mcp_client'[n] = tasks'[t].made]_vars

\* C18 witness: a restart of a Running endpoint has returned Ok with a new
\* session in place of the one the earlier start created
C18_Witness ==
    \E t \in Tasks :
        /\ tasks[t].pc = "done" /\ tasks[t].op = "restart" /\ tasks[t].res = "Ok"
        /\ registry[tasks[t].name].status = "Running"
        /\ mcp_client[tasks[t].name] = Some(tasks[t].id)
        /\ \E old \in sessions : old # tasks[t].id

\* the Local endpoints
Locals == {n \in DOMAIN registry : registry[n].endpoint_type = "Local"}

\* C19: when a shutdown has returned while the only other calls are stops,
\* every Local endpoint that was Running when the shutdown began is Stopped
\* and has no session handle
C19_RunningLocalsEndStopped ==
    \A t \in Tasks :
        /\ tasks[t].pc = "done" /\ tasks[t].op = "shutdown"
        /\ \A u \in Tasks \ {t} : tasks[u].op = "stop" /\ tasks[u].pc = "done"
        => \A n \in Locals :
              tasks[t].before[n] = "Running" =>
                  registry[n].status = "Stopped" /\ ~mcp_client[n].some

\* C20: no step of a shutdown changes the registry entry or the cached
\* session handle of a Remote endpoint
C20_ShutdownKeepsRemotes ==
    [][\A t \in Tasks :
          tasks[t].op = "shutdown" /\ tasks'[t] # tasks[t] =>
              \A n \in Names :
                  registry[n].endpoint_type = "Remote" =>
                      registry'[n] = registry[n] /\ mcp_client'[n] = mcp_client[n]]_vars

\* C20 witness: a shutdown has returned while the Remote endpoint is Running
\* with its cached client
C20_Witness ==
    \E t \in Tasks :
        /\ tasks[t].pc = "done" /\ tasks[t].op = "shutdown"
        /\ registry["b"].endpoint_type = "Remote"
        /\ registry["b"].status = "Running" /\ mcp_client["b"].some

\* task t serves a call-tool request whose route exists and whose tool the
\* route's filter does not allow
Disallowed(t) ==
    /\ tasks[t].op = "call_tool"
    /\ tasks[t].path \in DOMAIN path_to_endpoint
    /\ ~is_tool_allowed(tasks[t].tool, path_to_endpoint[tasks[t].path].tool_filter)

\* C21 as stated: a call-tool request naming a tool the route's filter does
\* not allow is rejected with ToolNotAllowed and no call is sent for it
C21_RejectedToolNotAllowed ==
    \A t \in Tasks :
        Disallowed(t) =>
            /\ "call" \notin tasks[t].contact
            /\ tasks[t].pc # "backend"
            /\ tasks[t].pc = "done" => tasks[t].res = "ToolNotAllowed"

\* C21: a call-tool request naming a tool the route's filter does not allow
\* is never dispatched; it is rejected with ToolNotAllowed when get_client
\* returned a client and with get_client's error otherwise
C21_FilterBeforeDispatch ==
    \A t \in Tasks :
        Disallowed(t) =>
            /\ "call" \notin tasks[t].contact
            /\ tasks[t].pc # "backend"
            /\ tasks[t].pc = "done" =>
                  /\ tasks[t].res \in {"ToolNotAllowed", "NotRunning", "McpProtocol"}
                  /\ tasks[t].res = "ToolNotAllowed" <=> tasks[t].client.some

\* C21 witness: a call of t2 on route a, whose filter excludes t2, has been
\* rejected with ToolNotAllowed after the client was obtained
C21_Witness ==
    \E t \in Tasks :
        /\ Disallowed(t) /\ tasks[t].pc = "done"
        /\ tasks[t].tool = "t2" /\ tasks[t].path = "a"
        /\ tasks[t].res = "ToolNotAllowed" /\ tasks[t].client.some

\* positions of the list whose names pass the invocation check of filter f
AllowedIdx(tools, f) == {i \in 1..Len(tools) : is_tool_allowed(tools[i], f)}

\* the k-th smallest member of a set of positions
Nth(idx, k) == CHOOSE i \in idx : Cardinality({j \in idx : j <= i}) = k

\* C22: the list apply_tool_filter returns is the subsequence of the backend
\* list at the positions whose names the filter allows, in the backend's
\* order; it is the whole list when there is no filter; a name is in it if
\* and only if it is in the backend list and passes is_tool_allowed
C22_FilteredListIsAllowedSubsequence ==
    last.op = "apply_tool_filter" =>
        LET idx == AllowedIdx(last.tools, filter) IN
        /\ Len(last.res) = Cardinality(idx)
        /\ \A k \in 1..Len(last.res) : last.res[k] = last.tools[Nth(idx, k)]
        /\ ~filter.some => last.res = last.tools
        /\ \A n \in ToolNames :
              any(last.res, n) <=> any(last.tools, n) /\ is_tool_allowed(n, filter)

\* C22 witness: a filter with both lists has kept two of three tools, the
\* excluded one dropped from the middle
C22_Witness ==
    /\ last.op = "apply_tool_filter" /\ filter.some
    /\ filter.v.include.some /\ filter.v.exclude.some
    /\ last.tools = <<"t3", "t2", "t1">>
    /\ last.res = <<"t3", "t1">>

\* the registered endpoints whose path is p
RegisteredAt(p) == {n \in DOMAIN registry : registry[n].path = p}

\* task t takes a step from position pc
StepsFrom(t, pc) == tasks[t].pc = pc /\ tasks'[t] # tasks[t]

\* C23: get_route yields the name and the configured filter of the endpoint
\* the registry holds with the path and NotFound when there is none; get_client then
\* yields the manager's client for that name with the same filter, or the
\* error of the step that failed
C23_RouteThenManagerClient ==
    [][\A t \in Tasks :
          /\ StepsFrom(t, "route") =>
                IF RegisteredAt(tasks[t].path) = {}
                THEN tasks'[t].pc = "done" /\ tasks'[t].res = "NotFound"
                ELSE /\ tasks'[t].pc = "gc_get"
                     /\ tasks'[t].name \in RegisteredAt(tasks[t].path)
                     /\ tasks'[t].route_filter = Config(tasks'[t].name).tools
          /\ StepsFrom(t, "gc_get") /\ tasks'[t].pc = "done" =>
                /\ tasks'[t].res = "NotRunning"
                /\ registry[tasks[t].name].status # "Running"
                /\ ~tasks'[t].client.some
          /\ StepsFrom(t, "gc_variant") =>
                /\ tasks'[t].name = tasks[t].name
                /\ tasks'[t].route_filter = tasks[t].route_filter
                /\ IF tasks'[t].client.some
                   THEN IF mcp_client[tasks[t].name].some
                        THEN tasks'[t].client = mcp_client[tasks[t].name]
                        ELSE /\ registry[tasks[t].name].endpoint_type = "Remote"
                             /\ tasks'[t].client = tasks'[t].made
                   ELSE /\ tasks'[t].pc = "done"
                        /\ tasks'[t].res \in {"NotRunning", "McpProtocol"}]_vars

\* C24: a start whose handshake timed out and a start whose handshake failed
\* on the format get errors of different kinds
C24_TimeoutKindDistinct ==
    \A t, u \in Tasks :
        tasks[t].cause = "timed_out" /\ tasks[u].cause = "format_error" =>
            tasks[t].vres # tasks[u].vres

\* the configuration entry endpoint n was registered from
EntryOf(configs, n) ==
    configs[CHOOSE i \in 1..Len(configs) :
               configs[i].name = n /\ \A j \in 1..(i - 1) : configs[j].name # n]

\* the entry asks for a start during initialisation
AutoStarts(config) == config.endpoint_type = "Local" /\ config.auto_start

\* C25: when init_from_config has returned, every registered endpoint that is
\* Remote, or Local with auto_start off, is Stopped and has no session
\* handle, and an initialisation without auto-start endpoints has contacted
\* no backend
C25_RegistrationStartsNothing ==
    \A t \in Tasks :
        tasks[t].op = "init" /\ tasks[t].pc = "done" =>
            /\ \A n \in DOMAIN registry :
                  ~AutoStarts(EntryOf(tasks[t].configs, n)) =>
                      /\ registry[n].status = "Stopped"
                      /\ ~mcp_client[n].some
                      /\ registry[n].endpoint_type =
                             EntryOf(tasks[t].configs, n).endpoint_type
            /\ (\A i \in 1..Len(tasks[t].configs) : ~AutoStarts(tasks[t].configs[i])) =>
                  tasks[t].contact = {} /\ sessions = {}

\* C25 witness: the initialisation has auto-started Local endpoint a and
\* registered Remote endpoint b, which is Stopped with no handle
C25_Witness ==
    \E t \in Tasks :
        /\ tasks[t].op = "init" /\ tasks[t].pc = "done" /\ tasks[t].res = "Ok"
        /\ DOMAIN registry = {"a", "b"}
        /\ registry["a"].status = "Running" /\ mcp_client["a"].some
        /\ registry["b"].endpoint_type = "Remote"
        /\ registry["b"].status = "Stopped" /\ ~mcp_client["b"].some

\* names of the configuration entries
ConfigNames(configs) == {configs[i].name : i \in 1..Len(configs)}

\* C26: a failed auto-start leaves the endpoint registered with status Failed
\* and the initialisation goes on with the next entry; an initialisation
\* over entries with distinct names returns Ok with every entry registered
C26_AutoStartFailureNotPropagated ==
    [][\A t \in Tasks :
          tasks[t].op = "init" =>
              /\ StepsFrom(t, "status") /\ tasks[t].vres # "Ok" =>
                    /\ tasks'[t].pc = "init"
                    /\ registry'[tasks[t].name].status = "Failed"
              /\ tasks'[t].pc = "done" /\ tasks[t].pc # "done"
                 /\ Cardinality(ConfigNames(tasks[t].configs)) = Len(tasks[t].configs) =>
                    /\ tasks'[t].res = "Ok"
                    /\ DOMAIN registry' = ConfigNames(tasks[t].configs)
                    /\ \A n \in DOMAIN registry' :
                          registry'[n].status \in
                              IF AutoStarts(EntryOf(tasks[t].configs, n))
                              THEN {"Running", "Failed"} ELSE {"Stopped"}]_vars

\* C26 witness: the initialisation has returned Ok after the auto-start of
\* its first entry failed in the handshake; the second entry is registered
C26_Witness ==
    \E t \in Tasks :
        /\ tasks[t].op = "init" /\ tasks[t].pc = "done" /\ tasks[t].res = "Ok"
        /\ Len(tasks[t].configs) = 2
        /\ AutoStarts(tasks[t].configs[1])
        /\ registry[tasks[t].configs[1].name].status = "Failed"
        /\ tasks[t].configs[2].name \in DOMAIN registry
        /\ registry[tasks[t].configs[2].name].status = "Stopped"

\* C27: the converted tool has the name and the description of the tool
\* definition; its input schema is the definition's schema with every key
\* when that is an object, and the empty object for null, boolean, string,
\* number and array schemas
C27_SchemaCoercedToObject ==
    converted.some =>
        /\ converted.v.name = tool_def.v.name
        /\ converted.v.description = tool_def.v.description
        /\ tool_def.v.input_schema.t = "object" =>
              /\ DOMAIN converted.v.input_schema = DOMAIN tool_def.v.input_schema.map
              /\ \A k \in DOMAIN tool_def.v.input_schema.map :
                    converted.v.input_schema[k] = tool_def.v.input_schema.map[k]
        /\ tool_def.v.input_schema.t # "object" =>
              DOMAIN converted.v.input_schema = {}

\* C27 witness: a tool whose schema is a non-empty array has been converted
\* to a tool with the same name and description and an empty schema
C27_Witness ==
    /\ converted.some
    /\ tool_def.v.input_schema.t = "array" /\ Len(tool_def.v.input_schema.items) = 1
    /\ tool_def.v.description = Some("A test tool")
    /\ converted.v.input_schema = EmptyMap

\* C28: once the worker task has ended the state is not Running
C28_TerminalWhenWorkerGone ==
    worker.pc = "exited" => state.st # "Running"

\* number of session closes the worker has issued
RECURSIVE Closes(_)
Closes(log) ==
    IF log = <<>> THEN 0
    ELSE (IF Head(log).kind = "close" THEN 1 ELSE 0) + Closes(Tail(log))

\* C29: a stop() called while the state is not Running fails and sends
\* nothing; when a stop() returns Ok the session has been closed cleanly, the
\* worker has ended and the state is Stopped; the session is closed at most
\* once
C29_StopClosesOnce ==
    [][/\ \A c \in Tasks :
             /\ callers'[c].kind = "Stop" /\ ops' = ops + 1 /\ callers'[c] # callers[c]
                /\ state # RtRunning
                => /\ callers'[c].pc = "done"
                   /\ callers'[c].res.v.err \in {"NotRunning", "RuntimeFailed"}
                   /\ rx' = rx /\ enqueued' = enqueued
             /\ callers[c].pc = "join" /\ callers'[c].pc = "done"
                /\ callers'[c].res.v.err = "Ok"
                => /\ HasStopped
                   /\ worker.pc = "exited"
                   /\ state' = RtStopped
       /\ Closes(service_log') <= 1]_vars

\* a start of endpoint n has returned an error after writing Failed
StartFailedOn(n) ==
    \E u \in Tasks :
        /\ tasks[u].op = "start" /\ tasks[u].name = n /\ tasks[u].pc = "done"
        /\ tasks[u].res # "Ok"
        /\ tasks[u].wrote = <<"Starting", "Failed">>

\* C30: a stop_endpoint whose variant stop failed writes Failed and returns
\* the variant's error; a stop that found the endpoint Failed after a start
\* of it had failed returns NotRunning and leaves the status Failed
C30_FailedStopEndsFailed ==
    [][\A t \in Tasks :
          tasks[t].op = "stop" =>
              /\ StepsFrom(t, "status") /\ tasks[t].vres # "Ok" =>
                    /\ registry'[tasks[t].name].status = "Failed"
                    /\ tasks'[t].pc = "done"
                    /\ tasks'[t].res = tasks[t].vres
              /\ tasks'[t].pc = "done" /\ tasks[t].pc # "done" /\ tasks[t].seen = "Failed"
                 /\ StartFailedOn(tasks[t].name) =>
                    /\ tasks'[t].res = "NotRunning"
                    /\ registry'[tasks[t].name].status = "Failed"]_vars

\* C31: for an endpoint that is Failed because its start failed and that
\* holds no session handle, a start whose bootstrap succeeded writes Running
\* and returns Ok, and a restart goes on to its bootstrap (it does not
\* return from its stop) and, the bootstrap having succeeded, writes Running
\* and returns Ok
C31_FailedStartRetryable ==
    [][\A t \in Tasks :
          LET tk == tasks[t] IN
          /\ tk.op \in {"start", "restart"} /\ tk.cur = "start"
             /\ StepsFrom(t, "status") /\ tk.vres = "Ok" =>
                /\ registry'[tk.name].status = "Running"
                /\ tasks'[t].pc = "done" /\ tasks'[t].res = "Ok"
          /\ tk.op = "restart" /\ tk.seen = "Failed" /\ StartFailedOn(tk.name)
             /\ ~mcp_client[tk.name].some
             /\ tk.pc # "done" /\ tasks'[t].pc = "done" =>
                tk.cur = "start"]_vars

\* the tasks inside the variant start of endpoint n: the write lock is held
\* and the bootstrap (spawn and handshake) has begun or has just ended
Bootstrapping(n) ==
    {t \in Tasks : /\ tasks[t].cur = "start" /\ tasks[t].name = n
                   /\ tasks[t].pc \in {"variant", "status"}}

\* C32: a stored session handle is replaced only by its removal (a stop),
\* never by another handle; a handle is stored only into an empty slot by the
\* start that holds the endpoint's write lock; at most one start of an
\* endpoint is inside its bootstrap at a time
C32_OneHandlePerEndpoint ==
    [][\A n \in Names :
          /\ mcp_client'[n] # mcp_client[n] /\ mcp_client[n].some =>
                /\ mcp_client'[n] = NoneV
                /\ \E t \in Tasks : tasks[t].cur = "stop" /\ tasks[t].name = n
                                    /\ StepsFrom(t, "variant")
          /\ mcp_client'[n] # mcp_client[n] /\ ~mcp_client[n].some =>
                \E t \in Tasks : /\ tasks[t].cur = "start" /\ tasks[t].name = n
                                 /\ StepsFrom(t, "variant")
                                 /\ endpoint_lock[n].writer = t
                                 /\ mcp_client'[n] = Some(NewSession(t))
                                 /\ NewSession(t) \notin sessions
          /\ Cardinality(Bootstrapping(n)) <= 1
          /\ Cardinality(Bootstrapping(n)') <= 1]_vars

\* C32 witness: a start reached the variant start of an endpoint that
\* already held the handle another call's start had stored, and was refused
C32_Witness ==
    \E t, u \in Tasks :
        /\ t # u
        /\ tasks[t].cur = "start" /\ tasks[t].pc = "status"
        /\ tasks[t].vres = "AlreadyRunning"
        /\ tasks[u].op \in {"start", "restart"} /\ tasks[u].name = tasks[t].name
        /\ tasks[u].made.some
        /\ mcp_client[tasks[t].name] = tasks[u].made

\* the first two calls are start(n), both have returned, and every bootstrap
\* that was attempted succeeded
RacedStarts(n) ==
    /\ \A t \in Tasks : /\ tasks[t].op = "start" /\ tasks[t].name = n
                        /\ tasks[t].pc = "done"
                        /\ tasks[t].id \in 1..2
                        /\ tasks[t].cause \in {None, "connected"}

\* C33: when two start(n) calls on a Stopped endpoint have both returned,
\* the bootstrap having succeeded, exactly one returned Ok, the other
\* AlreadyRunning, exactly one session was created, and the status is Running
C33_RacingStartsEndRunning ==
    \A n \in Names :
        RacedStarts(n) =>
            /\ \E t \in Tasks :
                  /\ tasks[t].res = "Ok"
                  /\ \A u \in Tasks \ {t} : tasks[u].res = "AlreadyRunning"
            /\ Cardinality(sessions) = 1
            /\ mcp_client[n].some /\ mcp_client[n].v \in sessions
            /\ registry[n].status = "Running"

\* C34: a step of a start, stop, restart, shutdown or request on endpoint A
\* leaves the set of registered endpoints, the routes with their filters,
\* and the name, path and kind of every entry as they were, and changes
\* neither the entry nor the session handle of any endpoint but A
C34_OnlyOwnStatusAndHandle ==
    [][/\ DOMAIN registry' = DOMAIN registry
       /\ path_to_endpoint' = path_to_endpoint
       /\ \A n \in DOMAIN registry :
             /\ registry'[n].name = registry[n].name
             /\ registry'[n].path = registry[n].path
             /\ registry'[n].endpoint_type = registry[n].endpoint_type
       /\ \A t \in Tasks :
             tasks'[t] # tasks[t] =>
                \A n \in Names \ {tasks[t].name} :
                    /\ registry'[n] = registry[n]
                    /\ mcp_client'[n] = mcp_client[n]]_vars

\* C34 witness: a start of the Local endpoint has failed while the Remote
\* endpoint is Running with its handle stored
C34_Witness ==
    \E t \in Tasks :
        /\ tasks[t].pc = "done" /\ tasks[t].op = "start" /\ tasks[t].name = "a"
        /\ tasks[t].res \notin {"Ok", "AlreadyRunning"}
        /\ registry["a"].status = "Failed" /\ ~mcp_client["a"].some
        /\ registry["b"].status = "Running" /\ mcp_client["b"].some
        /\ registry["b"].endpoint_type = "Remote" /\ registry["b"].name = "b"

\* the next step of the call task u is inside
TaskStep(u) ==
    \/ StartGet(u) \/ StartSetStarting(u) \/ AcquireWrite(u) \/ StartVariant(u)
    \/ StartStatus(u) \/ StopGet(u) \/ StopSetStopping(u) \/ StopVariant(u)
    \/ StopStatus(u) \/ RestartSleep(u) \/ ShutdownNext(u) \/ GetRoute(u)
    \/ GetClientGet(u) \/ AcquireRead(u) \/ GetOrCreateClient(u) \/ Backend(u)

\* task t is inside the variant start or stop of an endpoint, holding its lock
HoldsLock(t) ==
    /\ tasks[t].cur \in {"start", "stop"} /\ tasks[t].pc \in {"variant", "status"}
    /\ endpoint_lock[tasks[t].name].writer = t

\* C35: while a start or stop holds the lock of endpoint A, the next step of
\* any call on another endpoint, and the registry reads and writes of any
\* call, on A included, can be taken
C35_DistinctEndpointsDoNotBlock ==
    \A t, u \in Tasks :
        /\ t # u /\ HoldsLock(t)
        /\ tasks[u].pc \notin {"idle", "done"}
        /\ \/ tasks[u].name # tasks[t].name
           \/ tasks[u].pc \in {"get", "set", "gc_get"}
        => ENABLED TaskStep(u)

\* C35 witness: a start holds the lock of the Local endpoint inside its
\* bootstrap while a stop holds the lock of the Remote endpoint
C35_Witness ==
    \E t, u \in Tasks :
        /\ HoldsLock(t) /\ tasks[t].name = "a" /\ tasks[t].cur = "start"
        /\ tasks[t].pc = "variant"
        /\ HoldsLock(u) /\ tasks[u].name = "b" /\ tasks[u].cur = "stop"
        /\ tasks[u].pc = "variant"
        /\ registry["a"].status = "Starting" /\ registry["b"].status = "Stopping"

\* C36: get_or_create_client of a Remote endpoint returns the cached handle
\* when there is one, creating nothing; when there is none, the client it
\* creates is a fresh session handed to the caller only; in either case the
\* handle slot and the registry are left as they were
C36_OnDemandClientNotCached ==
    [][\A t \in Tasks :
          LET tk == tasks[t] IN
          StepsFrom(t, "gc_variant") /\ registry[tk.name].endpoint_type = "Remote" =>
              /\ mcp_client' = mcp_client
              /\ registry' = registry
              /\ mcp_client[tk.name].some =>
                    /\ tasks'[t].client = mcp_client[tk.name]
                    /\ sessions' = sessions
                    /\ tasks'[t].contact = tk.contact
                    /\ ~tasks'[t].made.some
              /\ ~mcp_client[tk.name].some /\ tasks'[t].res # "McpProtocol" =>
                    /\ tasks'[t].client.some
                    /\ tasks'[t].client.v \notin sessions
                    /\ sessions' = sessions \cup {tasks'[t].client.v}
                    /\ tasks'[t].made = tasks'[t].client
                    /\ \A n \in Names : mcp_client'[n] # tasks'[t].client]_vars

\* C36 witness: a request on the Remote endpoint got a client created on
\* demand while the handle slot is empty
C36_Witness ==
    \E t \in Tasks :
        /\ tasks[t].op \in {"list_tools", "call_tool"} /\ tasks[t].name = "b"
        /\ tasks[t].pc = "backend"
        /\ tasks[t].made.some /\ tasks[t].client = tasks[t].made
        /\ tasks[t].made.v \in sessions
        /\ ~mcp_client["b"].some

\* the cursors of the page requests the backend's listing leads through,
\* from cursor c on, at most n of them
RECURSIVE PagesFrom(_, _)
PagesFrom(c, n) ==
    IF n = 0 THEN <<>>
    ELSE IF service[c].ok /\ service[c].next_cursor.some
    THEN <<c>> \o PagesFrom(service[c].next_cursor, n - 1)
    ELSE <<c>>

\* the page requests of the whole listing, from the first page on
Chain == PagesFrom(NoneV, MaxRequests)

\* the listing comes to a page without a cursor or to a failing request
Terminating ==
    LET e == Chain[Len(Chain)] IN ~service[e].ok \/ ~service[e].next_cursor.some

\* the tools of the pages requested with the cursors of w, in that order
RECURSIVE ConcatPages(_)
ConcatPages(w) ==
    IF w = <<>> THEN <<>>
    ELSE [i \in 1..Len(service[Head(w)].tools) |->
             to_tool_definition(service[Head(w)].tools[i])]
         \o ConcatPages(Tail(w))

\* C37: the page requests of a listing start without a cursor and each
\* carries the cursor the page before returned; a listing returns only at a
\* page without a cursor or at a failing request: the error and no list if
\* a request failed, otherwise the tools of all pages in page order; and a
\* listing whose backend comes to a page without a cursor or to a failure
\* returns
C37_ListToolsWalksAllPages ==
    /\ [](IsPrefix(page_requests, Chain))
    /\ [](list_result.some =>
             /\ page_requests = Chain
             /\ Terminating
             /\ IF \E i \in 1..Len(Chain) : ~service[Chain[i]].ok
                THEN list_result.v = [ok |-> FALSE, err |-> "McpService"]
                ELSE list_result.v = [ok |-> TRUE, v |-> ConcatPages(Chain)])
    /\ [](~Terminating => ~list_result.some)
    /\ (Terminating ~> list_result.some)

\* C37 witness: a listing of three pages, the second of them empty, has
\* returned the three tools of the first and the third page in page order
C37_Witness ==
    /\ list_result.some /\ list_result.v.ok
    /\ Len(page_requests) = 3
    /\ Len(list_result.v.v) = 3
    /\ list_result.v.v[1].name = "t2" /\ list_result.v.v[2].name = "t3"
    /\ list_result.v.v[3].name = "t1"
    /\ list_result.v.v[3].input_schema.t = "object"
    /\ service[page_requests[2]].tools = <<>>

\* caller c is inside a handle call
InCall(c) == callers[c].pc \in {"send", "wait", "join"}

\* C38: a handle call that has begun returns, with a reply or an error; a
\* caller that has not yet enqueued its message when the worker has ended
\* gets RuntimeFailed, and a caller whose message was dropped with the
\* channel gets McpCancelled
C38_EveryCallReturns ==
    /\ \A c \in Tasks : InCall(c) ~> (callers[c].pc = "done" /\ callers[c].res.some)
    /\ [][\A c \in Tasks :
             /\ callers[c].pc = "send" /\ worker.pc = "exited"
                /\ callers'[c] # callers[c] =>
                   /\ callers'[c].pc = "done"
                   /\ callers'[c].res.v.err = "RuntimeFailed"
             /\ callers[c].pc = "wait" /\ worker.pc = "exited"
                /\ ~Executed(callers[c].id) /\ callers'[c] # callers[c] =>
                   /\ callers'[c].pc = "done"
                   /\ callers'[c].res.v.err = "McpCancelled"]_vars

\* C38 witness: the worker took the Stop at the head of the full channel and
\* ended; one caller had enqueued its message into the freed slot and got
\* McpCancelled, the other was waiting for space and got RuntimeFailed
C38_Witness ==
    /\ worker.pc = "exited"
    /\ Len(service_log) = 1 /\ service_log[1].kind = "close"
    /\ \E a, b \in Tasks :
          /\ callers[a].pc = "done" /\ callers[a].enq
          /\ callers[a].res.v.err = "McpCancelled"
          /\ callers[b].pc = "done" /\ ~callers[b].enq
          /\ callers[b].res.v = Reply("RuntimeFailed", 0, "worker channel closed")

\* the filter configured for the endpoint a request was addressed to
FilterOf(t) == path_to_endpoint[tasks[t].path].tool_filter

\* C39: a tool invocation that has reached the backend of a Local endpoint,
\* through the REST handler or through the bridge at the endpoint's path,
\* names a tool the endpoint's filter allows, and a tool list returned for
\* the endpoint by either path holds only allowed tools
C39_FilterOnEveryPath ==
    \A t \in Tasks :
        /\ tasks[t].name \in DOMAIN registry
        /\ registry[tasks[t].name].endpoint_type = "Local"
        => /\ tasks[t].op \in {"call_tool", "bridge_call_tool"}
              /\ "call" \in tasks[t].contact =>
                 is_tool_allowed(tasks[t].tool, FilterOf(t))
           /\ tasks[t].op \in {"list_tools", "bridge_list_tools"}
              /\ tasks[t].pc = "done" /\ tasks[t].res = "Ok" =>
                 \A i \in 1..Len(tasks[t].out) :
                     is_tool_allowed(tasks[t].out[i], FilterOf(t))

\* C40: a call-tool request for a tool the route's filter blocks gets the
\* same response, 403 ToolNotAllowed naming the tool, and causes the same
\* backend traffic, none, whether or not the backend has the tool
C40_RejectionRevealsNothing ==
    last.op = "mcp_call_tool" /\ ~is_tool_allowed(tool_name, filter) =>
        /\ last.runs[1] = last.runs[2]
        /\ last.runs[1] = [code |-> 403,
                           error |-> Some(<<"ToolNotAllowed", tool_name>>),
                           traffic |-> <<>>]

\* C40 witness: a tool that the include list names and the exclude list
\* names too was called on a backend that has it and on one that has not
C40_Witness ==
    /\ last.op = "mcp_call_tool"
    /\ filter.some /\ Listed(filter.v.include, tool_name)
    /\ Listed(filter.v.exclude, tool_name)
    /\ tool_name \in last.backends[1] /\ tool_name \notin last.backends[2]
    /\ last.runs[1].code = 403 /\ last.runs[2].code = 403

====
